---- MODULE Spec2Model ----
(***************************************************************************)
(* send2tg: the stateless token subsystem (start tokens, auth tokens and   *)
(* chat tokens) of lib/src/auth.ts and lib/src/common.ts, and the worker   *)
(* endpoints of src/index.ts that issue and verify them.                   *)
(*                                                                         *)
(* Representation.                                                         *)
(*  - A JavaScript string is a sequence of one-character strings.          *)
(*  - A Uint8Array is a sequence of numbers in 0..255.                     *)
(*  - A UserStateChat is a record with the keys id, version, name, sign    *)
(*    and, when the property is present, expires.                          *)
(*  - A JSON text is the sequence of its members <<key, <<type, value>>>>  *)
(*    in the order they are written.                                       *)
(*  - crypto.subtle's HMAC-SHA256 is an ideal MAC: a 32-byte digest that   *)
(*    is an injective function of (key, message) over the messages of the  *)
(*    model.                                                               *)
(*  - Times are epoch milliseconds.                                        *)
(***************************************************************************)
EXTENDS Integers, Sequences, FiniteSets, TLC

VARIABLES
    now,        \* Date.now()
    op,         \* the operation that ran last
    arg,        \* its arguments
    ret,        \* its result
    telegram,   \* the calls it made to the Telegram Bot API, oldest first
    env,        \* the worker's environment: BOT_TOKEN and TOKEN
    issued,     \* the start tokens of the latest /api/start response
    ext,        \* the browser extension: storage, menus and background worker
    web         \* the web client's user state

vars == <<now, op, arg, ret, telegram, env, issued, ext, web>>

-----------------------------------------------------------------------------
(* Bounds of the model *)

\* chat ids and user ids range over -MaxId..MaxId
MaxId == 1
\* credential versions range over 0..MaxVersion
MaxVersion == 1
\* the clock reads Epoch..Epoch+MaxTick
MaxTick == 1
\* the time of the first clock reading
Epoch == 1000000

-----------------------------------------------------------------------------
(* Program constants *)

\* lib/src/constants.ts (15 minutes, in milliseconds)
START_TOKEN_VALID_DURATION == 900000
\* lib/src/constants.ts: the life of an auth token, in milliseconds
AUTH_TOKEN_VALID_DURATION == 600000
\* the tolerated clock skew of a start token: 60 * 1000
FUTURE_SKEW == 60000
\* the byte length of an HMAC-SHA256 digest
SIGN_BYTES == 32
\* the byte length of a start token's signed body
BODY_BYTES == 16

SIGN_FIELD == "sign"
\* NOSIGN_FIELDS that leaves name among the signed fields
NOSIGN_FIELDS_SignOnly == {SIGN_FIELD}

NOSIGN_FIELDS == {SIGN_FIELD, "name"}

-----------------------------------------------------------------------------
(* The values of the model *)

Min(a, b) == IF a < b THEN a ELSE b

Ids == (0 - MaxId)..MaxId
Versions == 0..MaxVersion
Names == << <<>>, <<"A">>, <<"B">> >>

\* the width of the windows of time values around each boundary
Slack == MaxTick + 1
Window(c) == (c - Slack)..(c + Slack)
Clock == Epoch..(Epoch + MaxTick)
Times ==
    {0 - 1, 0} \cup Window(Epoch - START_TOKEN_VALID_DURATION)
               \cup Window(Epoch) \cup Window(Epoch + FUTURE_SKEW)
               \cup {t + AUTH_TOKEN_VALID_DURATION : t \in Clock}

-----------------------------------------------------------------------------
(* common.ts: hex *)

HexLower == <<"0", "1", "2", "3", "4", "5", "6", "7", "8", "9",
              "a", "b", "c", "d", "e", "f">>
HexUpper == <<"0", "1", "2", "3", "4", "5", "6", "7", "8", "9",
              "A", "B", "C", "D", "E", "F">>

RECURSIVE Flatten(_)
Flatten(ss) == IF ss = <<>> THEN <<>> ELSE Head(ss) \o Flatten(Tail(ss))

\* each byte as value.toString(16).padStart(2, '0')
encodeHex(input) ==
    [i \in 1..(2 * Len(input)) |->
        IF i % 2 = 1 THEN HexLower[(input[(i + 1) \div 2] \div 16) + 1]
        ELSE HexLower[(input[i \div 2] % 16) + 1]]

\* the value of each digit of radix 16
HexDigits ==
    [c \in {HexLower[i] : i \in 1..16} \cup {HexUpper[i] : i \in 1..16} |->
        IF \E i \in 1..16 : HexLower[i] = c
        THEN (CHOOSE i \in 1..16 : HexLower[i] = c) - 1
        ELSE (CHOOSE i \in 1..16 : HexUpper[i] = c) - 1]

\* the value of a character as a digit of radix 16, -1 when it is none
DigitVal(c) == IF c \in DOMAIN HexDigits THEN HexDigits[c] ELSE 0 - 1

RECURSIVE TrimStart(_)
TrimStart(s) ==
    IF s # <<>> /\ Head(s) = " " THEN TrimStart(Tail(s)) ELSE s

\* the longest prefix of s made of radix-16 digits
RECURSIVE DigitPrefix(_)
DigitPrefix(s) ==
    IF s # <<>> /\ DigitVal(Head(s)) >= 0
    THEN <<Head(s)>> \o DigitPrefix(Tail(s))
    ELSE <<>>

RECURSIVE DigitsValue(_, _)
DigitsValue(s, acc) ==
    IF s = <<>> THEN acc ELSE DigitsValue(Tail(s), acc * 16 + DigitVal(Head(s)))

\* Number.parseInt(s, 16): leading white space is skipped, a sign and a 0x
\* prefix are accepted, the digits stop at the first character that is not a
\* digit, and the result is NaN when no digit is left.
parseInt16(s) ==
    LET t == TrimStart(s)
        neg == t # <<>> /\ Head(t) = "-"
        u == IF t # <<>> /\ Head(t) \in {"+", "-"} THEN Tail(t) ELSE t
        v == IF Len(u) >= 2 /\ u[1] = "0" /\ u[2] \in {"x", "X"}
             THEN SubSeq(u, 3, Len(u)) ELSE u
        d == DigitPrefix(v)
    IN  IF d = <<>> THEN [nan |-> TRUE, v |-> 0]
        ELSE [nan |-> FALSE,
              v |-> IF neg THEN 0 - DigitsValue(d, 0) ELSE DigitsValue(d, 0)]

\* the store of a number into a Uint8Array element: NaN is 0, others wrap
ToUint8(r) == IF r.nan THEN 0 ELSE r.v % 256

decodeHex(str) ==
    [i \in 1..((Len(str) + 1) \div 2) |->
        ToUint8(parseInt16(SubSeq(str, 2 * i - 1, Min(2 * i, Len(str)))))]

-----------------------------------------------------------------------------
(* DataView: 64-bit integers in a byte buffer *)

\* the low w bytes of the two's complement of n, least significant first
RECURSIVE BytesLE(_, _)
BytesLE(n, w) ==
    IF w = 0 THEN <<>>
    ELSE <<n % 256>> \o BytesLE((n - (n % 256)) \div 256, w - 1)

Reverse(s) == [i \in 1..Len(s) |-> s[Len(s) + 1 - i]]

BytesBE(n, w) == Reverse(BytesLE(n, w))

\* Numbers of magnitude 2^30 and more are all far outside the times and ids
\* of the model; they are read as Huge (or -Huge - 1), which compares with
\* every value of the model as the number itself does.
Huge == 1073741824

RECURSIVE UnsignedAcc(_, _)
UnsignedAcc(bs, acc) ==
    IF bs = <<>> THEN acc
    ELSE IF acc >= Huge \div 256 THEN Huge
    ELSE UnsignedAcc(Tail(bs), acc * 256 + Head(bs))

\* the unsigned value of big-endian bytes
UnsignedBE(bs) == UnsignedAcc(bs, 0)

\* view.getBigInt64(offset): the signed value of 8 big-endian bytes
SignedBE(bs) ==
    IF bs[1] >= 128
    THEN 0 - UnsignedBE([i \in 1..Len(bs) |-> 255 - bs[i]]) - 1
    ELSE UnsignedBE(bs)

\* view.getBigInt64(offset, true): little-endian
SignedLE(bs) == SignedBE(Reverse(bs))

-----------------------------------------------------------------------------
(* auth.ts: AuthOptions *)

\* flag and expires of the AuthOptions of the model range over 0..MaxOpt
MaxOpt == 1

\* an AuthOptions is a record whose keys are among flag and expires
AuthOptionsSet ==
    {[flag |-> f, expires |-> e] : f \in 1..MaxOpt, e \in 1..MaxOpt}
        \cup {[flag |-> f] : f \in 1..MaxOpt}
        \cup {[expires |-> e] : e \in 1..MaxOpt}
        \cup {[x \in {} |-> 0]}

NoOptions == [x \in {} |-> 0]

\* ao.flag ? ao.flag & 0xff : 0 (and the same for expires)
LowByteOf(ao, k) == IF k \in DOMAIN ao /\ ao[k] # 0 THEN ao[k] % 256 ELSE 0

\* serializeAuthOptionsToNumber that leaves expires out
serializeAuthOptionsToNumberFlagOnly(ao) ==
    LowByteOf(ao, "flag") * 256

serializeAuthOptionsToNumber(ao) ==
    LowByteOf(ao, "flag") * 256 + LowByteOf(ao, "expires")

\* parseAuthOptionsNumber that reads the two bytes the other way round
parseAuthOptionsNumberSwapped(aon) ==
    LET flag == aon % 256
        expire == (aon \div 256) % 256
        keys == (IF flag # 0 THEN {"flag"} ELSE {})
                    \cup (IF expire # 0 THEN {"expires"} ELSE {})
    IN  [k \in keys |-> IF k = "flag" THEN flag ELSE expire]

parseAuthOptionsNumber(aon) ==
    LET flag == (aon \div 256) % 256
        expire == aon % 256
        keys == (IF flag # 0 THEN {"flag"} ELSE {})
                    \cup (IF expire # 0 THEN {"expires"} ELSE {})
    IN  [k \in keys |-> IF k = "flag" THEN flag ELSE expire]

-----------------------------------------------------------------------------
(* auth.ts: the 16-byte body of a start token *)

\* StartBody that writes ts over the whole first word
StartBodyNoFlags(ts, userId, authOptionsNumber) ==
    BytesBE(ts, 8) \o BytesBE(userId, 8)

\* generateStartToken, first definition: one big-endian word holding the
\* option number above the low 48 bits of ts, then userId, big-endian
StartBody(ts, userId, authOptionsNumber) ==
    BytesBE(authOptionsNumber, 2) \o BytesBE(ts, 6) \o BytesBE(userId, 8)

\* generateStartToken, second definition: ts and userId, little-endian
StartBodyLE(ts, userId) == BytesLE(ts, 8) \o BytesLE(userId, 8)

-----------------------------------------------------------------------------
(* common.ts: HMAC-SHA256 *)

\* The signing keys of the model. A key is the sequence of the lines of the
\* key string: the base secret, then the lines of the token class.
Bases == <<"S", "T">>
LevelStr(level) == <<"0", "1", "2">>[level + 1]
AllKeys ==
    Flatten([b \in 1..Len(Bases) |->
        << <<Bases[b], "auth_token">>, <<Bases[b], "chat_token">>,
           <<Bases[b], "0", "start_token">>, <<Bases[b], "1", "start_token">>,
           <<Bases[b], "2", "start_token">> >>])
KeyCode(key) == (CHOOSE i \in 1..Len(AllKeys) : AllKeys[i] = key) - 1

\* The messages of the model are the JSON texts of credentials and the
\* 16-byte bodies of start tokens; each has a number of its own.
NumTimes == Cardinality(Times)
TimeCode(t) ==
    CHOOSE c \in 1..NumTimes :
        t \in Times /\ c = Cardinality({u \in Times : u < t}) + 1
TimeAt(c) == CHOOSE t \in Times : TimeCode(t) = c
NameCode(n) == CHOOSE i \in 1..Len(Names) : Names[i] = n
IdCode(id) == CHOOSE c \in 1..(2 * MaxId + 1) : c = id + MaxId + 1
VersionCode(v) == CHOOSE c \in 1..(MaxVersion + 1) : c = v + 1

HasMember(text, k) == \E i \in 1..Len(text) : text[i][1] = k
Member(text, k) == text[CHOOSE i \in 1..Len(text) : text[i][1] = k][2][2]

TextSpace == (NumTimes + 1) * (2 * MaxId + 2) * (MaxVersion + 2) * (Len(Names) + 1)
TextCode(text) ==
    LET e == IF HasMember(text, "expires") THEN TimeCode(Member(text, "expires")) ELSE 0
        i == IF HasMember(text, "id") THEN IdCode(Member(text, "id")) ELSE 0
        v == IF HasMember(text, "version") THEN VersionCode(Member(text, "version")) ELSE 0
        n == IF HasMember(text, "name") THEN NameCode(Member(text, "name")) ELSE 0
    IN  ((e * (2 * MaxId + 2) + i) * (MaxVersion + 2) + v) * (Len(Names) + 1) + n

\* the bytes of an option number: 0..MaxOpt and the greatest byte
OptByte(i) == IF i = MaxOpt + 1 THEN 255 ELSE i
NumOpts == (MaxOpt + 2) * (MaxOpt + 2)
BodySpace == 2 * (2 * MaxId + 1) * NumTimes * NumOpts
BodyAt ==
    [c \in 0..(BodySpace - 1) |->
        LET u == ((c \div 2) % (2 * MaxId + 1)) - MaxId
            t == TimeAt((((c \div 2) \div (2 * MaxId + 1)) % NumTimes) + 1)
            o == ((c \div 2) \div (2 * MaxId + 1)) \div NumTimes
            aon == OptByte(o \div (MaxOpt + 2)) * 256 + OptByte(o % (MaxOpt + 2))
        IN  IF c % 2 = 0 THEN StartBody(t, u, aon) ELSE StartBodyLE(t, u)]
\* the numbers in BodyAt of the bodies that hold the user id, the time and
\* the option bytes read from bytes in either byte order
BodyNumber(u, t, o, le) ==
    2 * ((o * NumTimes + (TimeCode(t) - 1)) * (2 * MaxId + 1) + (u + MaxId)) + le
BodyCandidates(bytes) ==
    LET ube == SignedBE(SubSeq(bytes, 9, 16))
        tbe == IF \A i \in 3..8 : bytes[i] = 255 THEN 0 - 1
               ELSE UnsignedBE(SubSeq(bytes, 3, 8))
        ule == SignedLE(SubSeq(bytes, 9, 16))
        tle == SignedLE(SubSeq(bytes, 1, 8))
        OptOk(b) == b <= MaxOpt \/ b = 255
        OptIndex(b) == IF b = 255 THEN MaxOpt + 1 ELSE b
    IN  (IF ube \in Ids /\ tbe \in Times /\ OptOk(bytes[1]) /\ OptOk(bytes[2])
         THEN {BodyNumber(ube, tbe,
                 OptIndex(bytes[1]) * (MaxOpt + 2) + OptIndex(bytes[2]), 0)}
         ELSE {})
        \cup (IF ule \in Ids /\ tle \in Times
              THEN {BodyNumber(ule, tle, 0, 1)} ELSE {})
BytesCode(bytes) ==
    TextSpace + (CHOOSE c \in BodyCandidates(bytes) : BodyAt[c] = bytes)

MsgSpace == TextSpace + BodySpace

\* The digest of the message of number code under key: the four base-256
\* digits of the number of (key, message), each mapped by a bijection of
\* 0..255, repeated with a shift to fill the 32 bytes.
Hmac(key, code) ==
    LET n == KeyCode(key) * MsgSpace + code
    IN  [i \in 1..SIGN_BYTES |->
            (((n \div (256 ^ ((SIGN_BYTES - i) % 4))) % 256) * 167
                + 13 * ((i - 1) \div 4)) % 256]

\* new TextEncoder().encode(payloadStr), then crypto.subtle.sign
hmacSha256SignText(key, payloadStr) == Hmac(key, TextCode(payloadStr))

\* payload instanceof Uint8Array
hmacSha256SignRaw(key, payload) == Hmac(key, BytesCode(payload))

\* hmacSha256VerifyRaw that looks at the length of the signature only
hmacSha256VerifyRawLength(key, signature, payload) ==
    Len(signature) = SIGN_BYTES

\* crypto.subtle.verify: the signature is the digest, byte for byte
hmacSha256VerifyRaw(key, signature, payload) ==
    signature = hmacSha256SignRaw(key, payload)

hmacSha256Verify(key, signature, payload) ==
    decodeHex(signature) = hmacSha256SignText(key, payload)

-----------------------------------------------------------------------------
(* json-sorted-stringify, JSON.parse and the zod schema *)

SortedKeys == <<"expires", "id", "name", "sign", "version">>
StringKeys == {"name", "sign"}

JsonValue(k, v) == IF k \in StringKeys THEN <<"str", v>> ELSE <<"num", v>>

\* the members of obj, keys in sorted order
jsonSortedStringify(obj) ==
    LET keys == SelectSeq(SortedKeys, LAMBDA k : k \in DOMAIN obj)
    IN  [i \in 1..Len(keys) |-> <<keys[i], JsonValue(keys[i], obj[keys[i]])>>]

\* hmacSha256Sign of an object: jsonSortedStringify, then the hex digest
hmacSha256Sign(key, payload) ==
    encodeHex(hmacSha256SignText(key, jsonSortedStringify(payload)))

\* UserStateChatSchema.parse: id is required and a number, expires and
\* version are integers, name and sign are strings; version, name and sign
\* have defaults; keys the schema does not name are dropped.
SchemaOk(text) ==
    /\ HasMember(text, "id")
    /\ \A i \in 1..Len(text) :
        \/ text[i][1] \notin {"expires", "id", "name", "sign", "version"}
        \/ text[i][2][1] = (IF text[i][1] \in StringKeys THEN "str" ELSE "num")

\* SchemaParse of a schema that does not name expires
SchemaParseNoExpires(text) ==
    [k \in {"id", "version", "name", "sign"} |->
        IF HasMember(text, k) THEN Member(text, k)
        ELSE IF k = "version" THEN 0 ELSE <<>>]

SchemaParse(text) ==
    LET keys == {"id", "version", "name", "sign"}
                    \cup (IF HasMember(text, "expires") THEN {"expires"} ELSE {})
    IN  [k \in keys |->
            IF HasMember(text, k) THEN Member(text, k)
            ELSE IF k = "version" THEN 0 ELSE <<>>]

-----------------------------------------------------------------------------
(* auth.ts: chat credentials *)

\* A token string is a record: kind "b64json" is the URL-safe base64 of the
\* JSON text in text, "b64" the base64 of a text that is no JSON, "raw" a
\* string that is no base64.
urlSafeBase64Encode(str) == [kind |-> "b64json", text |-> str]

Thrown(e) == [ok |-> FALSE, err |-> e]

\* signChat that leaves only the sign field out of the payload
signChatAllFields(token, chat) ==
    LET payload == [k \in DOMAIN chat \ {SIGN_FIELD} |-> chat[k]]
        sign == hmacSha256Sign(token, payload)
    IN  [k \in DOMAIN chat \cup {SIGN_FIELD} |->
            IF k = SIGN_FIELD THEN sign ELSE chat[k]]

signChat(token, chat) ==
    LET payload == [k \in DOMAIN chat \ NOSIGN_FIELDS |-> chat[k]]
        sign == hmacSha256Sign(token, payload)
    IN  [k \in DOMAIN chat \cup {SIGN_FIELD} |->
            IF k = SIGN_FIELD THEN sign ELSE chat[k]]

serializeChat(chat) == urlSafeBase64Encode(jsonSortedStringify(chat))

\* parseChat with a schema whose default of version is 1
parseChatDefaultOne(chatToken) ==
    IF chatToken.kind \notin {"b64", "b64json"} THEN Thrown("base64")
    ELSE IF chatToken.kind = "b64" THEN Thrown("json")
    ELSE IF ~SchemaOk(chatToken.text) THEN Thrown("schema")
    ELSE [ok |-> TRUE,
          chat |-> [SchemaParse(chatToken.text) EXCEPT
                      !.version = IF HasMember(chatToken.text, "version")
                                  THEN @ ELSE 1]]

parseChat(chatToken) ==
    IF chatToken.kind \notin {"b64", "b64json"} THEN Thrown("base64")
    ELSE IF chatToken.kind = "b64" THEN Thrown("json")
    ELSE IF ~SchemaOk(chatToken.text) THEN Thrown("schema")
    ELSE [ok |-> TRUE, chat |-> SchemaParse(chatToken.text)]

\* parseAndVerifyChat that does not look at the result of hmacSha256Verify
parseAndVerifyChatUnchecked(token, chatToken, t) ==
    LET p == parseChat(chatToken)
    IN  IF ~p.ok THEN p
        ELSE IF "expires" \in DOMAIN p.chat /\ p.chat.expires # 0
                    /\ p.chat.expires <= t
        THEN Thrown("expired")
        ELSE IF p.chat[SIGN_FIELD] = <<>> THEN Thrown("no sign")
        ELSE p

\* t is the reading of Date.now()
parseAndVerifyChat(token, chatToken, t) ==
    LET p == parseChat(chatToken)
    IN  IF ~p.ok THEN p
        ELSE
            LET chat == p.chat
                sign == chat[SIGN_FIELD]
                record == [k \in DOMAIN chat \ NOSIGN_FIELDS |-> chat[k]]
            IN  IF "expires" \in DOMAIN chat /\ chat.expires # 0 /\ chat.expires <= t
                THEN Thrown("expired")
                ELSE IF sign = <<>> THEN Thrown("no sign")
                ELSE IF ~hmacSha256Verify(token, sign, jsonSortedStringify(record))
                THEN Thrown("invalid sign")
                ELSE p

-----------------------------------------------------------------------------
(* auth.ts: start tokens *)

\* A start token string is a record: kind "b64" is the URL-safe base64 of
\* bytes, "raw" a string atob rejects, "empty" the empty string.
urlSafeBase64EncodeRaw(bytes) == [kind |-> "b64", bytes |-> bytes]

\* first definition (with AuthOptions)
generateStartToken(key, ts, userId, authOptions) ==
    LET buf == StartBody(ts, userId, serializeAuthOptionsToNumber(authOptions))
    IN  urlSafeBase64EncodeRaw(buf \o hmacSha256SignRaw(key, buf))

\* second definition (little-endian, no AuthOptions)
generateStartTokenLE(key, ts, userId) ==
    LET buf == StartBodyLE(ts, userId)
    IN  urlSafeBase64EncodeRaw(buf \o hmacSha256SignRaw(key, buf))

\* BindingFails that compares the ids only under strictUserIdMatch
BindingFailsStrictOnly(tokenUserId, userId, strictUserIdMatch) ==
    strictUserIdMatch /\ tokenUserId # userId

\* (strictUserIdMatch || tokenUserId !== 0) && tokenUserId !== userId
BindingFails(tokenUserId, userId, strictUserIdMatch) ==
    (strictUserIdMatch \/ tokenUserId # 0) /\ tokenUserId # userId

\* OutsideWindow with the later end of the window included
OutsideWindowInclusive(ts, t) ==
    ts + START_TOKEN_VALID_DURATION < t \/ ts > t + FUTURE_SKEW

\* ts + START_TOKEN_VALID_DURATION < now || ts >= now + 60 * 1000
OutsideWindow(ts, t) ==
    ts + START_TOKEN_VALID_DURATION < t \/ ts >= t + FUTURE_SKEW

\* parseStartToken that returns the options only with ok = true
parseStartTokenOkOnly(key, startToken, userId, strictUserIdMatch, t) ==
    IF startToken.kind # "b64" THEN <<FALSE>>
    ELSE IF Len(startToken.bytes) # BODY_BYTES + SIGN_BYTES THEN <<FALSE>>
    ELSE
        LET buf == SubSeq(startToken.bytes, 1, BODY_BYTES)
            sign == SubSeq(startToken.bytes, BODY_BYTES + 1, Len(startToken.bytes))
        IN  IF BindingFails(SignedBE(SubSeq(buf, 9, 16)), userId, strictUserIdMatch)
                \/ OutsideWindow(UnsignedBE(SubSeq(buf, 3, 8)), t)
                \/ ~hmacSha256VerifyRaw(key, sign, buf)
            THEN <<FALSE>>
            ELSE <<TRUE, parseAuthOptionsNumber(UnsignedBE(SubSeq(buf, 1, 2)))>>

\* the result is <<ok>> or <<ok, authOptions>>; t is the reading of Date.now()
parseStartToken(key, startToken, userId, strictUserIdMatch, t) ==
    IF startToken.kind # "b64" THEN <<FALSE>>
    ELSE IF Len(startToken.bytes) # BODY_BYTES + SIGN_BYTES THEN <<FALSE>>
    ELSE
        LET combined == startToken.bytes
            buf == SubSeq(combined, 1, BODY_BYTES)
            sign == SubSeq(combined, BODY_BYTES + 1, Len(combined))
            tokenUserId == SignedBE(SubSeq(buf, 9, 16))
            ts == UnsignedBE(SubSeq(buf, 3, 8))
            authOptionsNumber == UnsignedBE(SubSeq(buf, 1, 2))
        IN  IF BindingFails(tokenUserId, userId, strictUserIdMatch) THEN <<FALSE>>
            ELSE IF OutsideWindow(ts, t) THEN <<FALSE>>
            ELSE <<hmacSha256VerifyRaw(key, sign, buf),
                   parseAuthOptionsNumber(authOptionsNumber)>>

verifyStartToken(key, startToken, userId, strictUserIdMatch, t) ==
    IF startToken.kind # "b64" THEN FALSE
    ELSE IF Len(startToken.bytes) # BODY_BYTES + SIGN_BYTES THEN FALSE
    ELSE
        LET combined == startToken.bytes
            buf == SubSeq(combined, 1, BODY_BYTES)
            sign == SubSeq(combined, BODY_BYTES + 1, Len(combined))
            ts == SignedLE(SubSeq(buf, 1, 8))
            tokenUserId == SignedLE(SubSeq(buf, 9, 16))
        IN  IF BindingFails(tokenUserId, userId, strictUserIdMatch) THEN FALSE
            ELSE IF OutsideWindow(ts, t) THEN FALSE
            ELSE hmacSha256VerifyRaw(key, sign, buf)

-----------------------------------------------------------------------------
(* index.ts: the signing keys and the revocation hook *)

\* env.TOKEN || env.BOT_TOKEN
BaseSecret(e) == IF e.TOKEN # "" THEN e.TOKEN ELSE e.BOT_TOKEN

\* getStartTokenSignKey without the line of PUBLIC_LEVEL
getStartTokenSignKeyNoLevel(e, publicLevel) ==
    <<BaseSecret(e), "0", "start_token">>

\* publicLevel is buildVariables.PUBLIC_LEVEL
getStartTokenSignKey(e, publicLevel) ==
    <<BaseSecret(e), LevelStr(publicLevel), "start_token">>
\* getAuthTokenSignKey without a class of its own
getAuthTokenSignKeyShared(e) == <<BaseSecret(e), "chat_token">>

getAuthTokenSignKey(e) == <<BaseSecret(e), "auth_token">>
getChatTokenSignKey(e) == <<BaseSecret(e), "chat_token">>

getChatTokenVersion(e, userId) == 0

-----------------------------------------------------------------------------
(* index.ts: the worker *)

\* the environments of the model: TOKEN set, TOKEN unset, BOT_TOKEN unset
Envs == {[BOT_TOKEN |-> "T", TOKEN |-> "S"],
         [BOT_TOKEN |-> "T", TOKEN |-> ""],
         [BOT_TOKEN |-> "", TOKEN |-> "S"]}

\* a secret that is not the deployment's
OtherSecret(e) == IF BaseSecret(e) = "S" THEN "T" ELSE "S"

NoToken == [kind |-> "absent"]
Nothing == [x \in {} |-> 0]

\* The credentials a client may present at time t: every choice of the
\* fields, signed under the auth-token key, the chat-token key or the
\* chat-token key of another secret, signed for another version, or unsigned.
ExpiresChoices(t) == {0, t, t + 1}
Unsigned(t) ==
    {[id |-> i, version |-> v, name |-> n, sign |-> <<>>] :
        i \in Ids, v \in Versions, n \in {Names[1], Names[2]}}
    \cup {[id |-> i, version |-> v, name |-> n, sign |-> <<>>, expires |-> x] :
        i \in Ids, v \in Versions, n \in {Names[1], Names[2]},
        x \in ExpiresChoices(t)}
Signatures(e, c) ==
    {<<>>}
    \cup {signChat(k, c).sign :
            k \in {getAuthTokenSignKey(e), getChatTokenSignKey(e),
                   <<OtherSecret(e), "chat_token">>}}
    \cup {signChat(getChatTokenSignKey(e),
                   [c EXCEPT !.version = (c.version + 1) % (MaxVersion + 1)]).sign}
Credentials(e, t) ==
    UNION {{[c EXCEPT !.sign = s] : s \in Signatures(e, c)} : c \in Unsigned(t)}
ClientTokens(e, t) ==
    {serializeChat(c) : c \in Credentials(e, t)}
        \cup {[kind |-> "raw"], [kind |-> "b64"]}

\* the fields of a form that the handlers read
SendForms(e, t) ==
    [chat : ClientTokens(e, t) \cup {NoToken},
     content : {"none", "text", "file"},
     dry_run : {"absent", "1"}]
ExpiresFields(t) ==
    {[has |-> FALSE], [has |-> TRUE, int |-> FALSE],
     [has |-> TRUE, int |-> TRUE, v |-> 0],
     [has |-> TRUE, int |-> TRUE, v |-> t + 1]}
AuthForms(e, t) ==
    [auth_token : ClientTokens(e, t) \cup {NoToken},
     expires : ExpiresFields(t)]

Response(status, body) == [status |-> status, body |-> body]

\* VerifyCredential without the HMAC check: the token is only parsed
VerifyCredentialUnsigned(key, token, e, t) ==
    LET r == parseChat(token)
    IN  IF ~r.ok THEN r
        ELSE IF r.chat.version # getChatTokenVersion(e, r.chat.id)
        THEN Thrown("revoked")
        ELSE r

\* VerifyCredential without the comparison of versions
VerifyCredentialAnyVersion(key, token, e, t) == parseAndVerifyChat(key, token, t)

\* parseAndVerifyChat, then the comparison with getChatTokenVersion
VerifyCredential(key, token, e, t) ==
    LET r == parseAndVerifyChat(key, token, t)
    IN  IF ~r.ok THEN r
        ELSE IF r.chat.version # getChatTokenVersion(e, r.chat.id)
        THEN Thrown("revoked")
        ELSE r

\* sendMessage: the request it makes of the Telegram Bot API
TelegramCall(chat_id, content) ==
    [method |-> IF content = "file" THEN "sendDocument" ELSE "sendMessage",
     chat_id |-> chat_id]

\* router.post('/api/send'); sent tells whether Telegram answers ok
ApiSend(form, sent) ==
    /\ op = "idle"
    /\ op' = "send"
    /\ arg' = form
    /\ UNCHANGED <<now, env, issued, ext, web>>
    /\ IF env.BOT_TOKEN = ""
       THEN ret' = Response(500, Nothing) /\ telegram' = <<>>
       ELSE IF form.chat = NoToken
               \/ (form.content = "none" /\ form.dry_run # "1")
       THEN ret' = Response(400, Nothing) /\ telegram' = <<>>
       ELSE
        LET r == VerifyCredential(getChatTokenSignKey(env), form.chat, env, now)
        IN  IF ~r.ok
            THEN ret' = Response(401, Nothing) /\ telegram' = <<>>
            ELSE IF form.dry_run = "1"
            THEN ret' = Response(200, Nothing) /\ telegram' = <<>>
            ELSE IF form.content = "none"
            THEN ret' = Response(500, Nothing) /\ telegram' = <<>>
            ELSE /\ telegram' = <<TelegramCall(r.chat.id, form.content)>>
                 /\ ret' = Response(IF sent THEN 200 ELSE 500, Nothing)

\* formData.has('expires') ? parseStrictInt(...) : undefined, then if (expires)
NewExpires(field) ==
    IF field.has /\ field.int /\ field.v # 0 THEN {field.v} ELSE {}

\* ResignChat that leaves the signature of the auth token in place
ResignChatKeepSign(e, chat, x) ==
    LET keys == (DOMAIN chat \ {"expires"})
                    \cup (IF x = {} THEN {} ELSE {"expires"})
    IN  [k \in keys |-> IF k = "expires" THEN CHOOSE v \in x : TRUE ELSE chat[k]]

\* delete chat.expires; if (expires) chat.expires = expires; then signChat
\* under the chat-token key. x is the set holding the new expires, if any.
ResignChat(e, chat, x) ==
    LET keys == (DOMAIN chat \ {"expires"})
                    \cup (IF x = {} THEN {} ELSE {"expires"})
        c == [k \in keys |->
                IF k = "expires" THEN CHOOSE v \in x : TRUE ELSE chat[k]]
    IN  signChat(getChatTokenSignKey(e), c)

\* router.post('/api/auth')
ApiAuth(form) ==
    /\ op = "idle"
    /\ op' = "auth"
    /\ arg' = form
    /\ telegram' = <<>>
    /\ UNCHANGED <<now, env, issued, ext, web>>
    /\ IF env.BOT_TOKEN = ""
       THEN ret' = Response(500, Nothing)
       ELSE IF form.auth_token = NoToken
       THEN ret' = Response(400, Nothing)
       ELSE
        LET r == VerifyCredential(getAuthTokenSignKey(env), form.auth_token, env, now)
        IN  IF ~r.ok
            THEN ret' = Response(401, Nothing)
            ELSE ret' = Response(200,
                    [chat_token |->
                        serializeChat(ResignChat(env, r.chat,
                                                 NewExpires(form.expires)))])

\* the response is delivered; the worker keeps nothing of the request
Reply ==
    /\ op # "idle"
    /\ op' = "idle"
    /\ arg' = Nothing
    /\ ret' = Nothing
    /\ telegram' = <<>>
    /\ UNCHANGED <<now, env, issued, ext, web>>

\* time passes between requests
Tick ==
    /\ op = "idle"
    /\ now < Epoch + MaxTick
    /\ now' = now + 1
    /\ UNCHANGED <<op, arg, ret, telegram, env, issued, ext, web>>

Init ==
    /\ now = Epoch
    /\ ext = Nothing
    /\ web = Nothing
    /\ env \in Envs
    /\ op = "idle"
    /\ arg = Nothing
    /\ ret = Nothing
    /\ telegram = <<>>
    /\ issued = {}

Next ==
    \/ /\ op = "idle"
       /\ \E form \in SendForms(env, now), sent \in BOOLEAN : ApiSend(form, sent)
    \/ /\ op = "idle"
       /\ \E form \in AuthForms(env, now) : ApiAuth(form)
    \/ Reply
    \/ Tick

Spec == Init /\ [][Next]_vars

-----------------------------------------------------------------------------
(* Claims about the worker *)

\* the request reached the check of its credential
SendReachesCheck ==
    op = "send" /\ env.BOT_TOKEN # "" /\ arg.chat # NoToken
        /\ ~(arg.content = "none" /\ arg.dry_run # "1")
AuthReachesCheck ==
    op = "auth" /\ env.BOT_TOKEN # "" /\ arg.auth_token # NoToken

\* C1: /api/send calls Telegram only when parseAndVerifyChat accepted the
\* token under the chat-token key, the credential's version is the current
\* version of its id and the request is no dry run; a request whose token
\* fails a check, and every dry_run request, makes no Telegram call.
C1_SendOnlyAfterVerification ==
    (op = "send" /\ telegram # <<>>) =>
        /\ arg.chat # NoToken
        /\ arg.dry_run # "1"
        /\ LET r == parseAndVerifyChat(getChatTokenSignKey(env), arg.chat, now)
           IN  /\ r.ok
               /\ r.chat.version = getChatTokenVersion(env, r.chat.id)
               /\ \A i \in 1..Len(telegram) : telegram[i].chat_id = r.chat.id

C1_Witness ==
    /\ op = "send"
    /\ telegram # <<>>
    /\ ret.status = 200
    /\ "expires" \in DOMAIN parseChat(arg.chat).chat

-----------------------------------------------------------------------------
(* auth.ts: a credential is signed, serialized, parsed and verified *)

\* keys that sign credentials: one of each class, of different secrets
ChatKeys == {<<Bases[1], "auth_token">>, <<Bases[2], "chat_token">>}

\* The schema-valid credentials: every id, version and name, and expires
\* absent, zero, negative or around the readings of the clock.
ExpiresValues == {0 - 1, 0} \cup Window(Epoch)
SchemaValid ==
    {[id |-> i, version |-> v, name |-> Names[n], sign |-> <<>>] :
        i \in Ids, v \in Versions, n \in 1..Len(Names)}
    \cup {[id |-> i, version |-> v, name |-> Names[n], sign |-> <<>>,
           expires |-> x] :
        i \in Ids, v \in Versions, n \in 1..Len(Names), x \in ExpiresValues}

\* the JSON text with the value of member k replaced by v
SetMember(text, k, v) ==
    [i \in 1..Len(text) |->
        IF text[i][1] = k THEN <<k, <<text[i][2][1], v>>>> ELSE text[i]]

SignedFields == {"id", "version", "expires"}
FieldValues(k) ==
    IF k = "id" THEN Ids ELSE IF k = "version" THEN Versions ELSE ExpiresValues

\* the deployment whose getChatTokenVersion answers the version check
ChatEnv == CHOOSE e \in Envs : e.BOT_TOKEN # "" /\ e.TOKEN # ""

\* signChat, serializeChat, then parseAndVerifyChat and the version check
SignAndVerify(key, chat) ==
    /\ op = "idle"
    /\ op' = "verify"
    /\ LET token == serializeChat(signChat(key, chat))
       IN  /\ arg' = [key |-> key, chat |-> chat, token |-> token]
           /\ ret' = VerifyCredential(key, token, env, now)
    /\ telegram' = <<>>
    /\ UNCHANGED <<now, env, issued, ext, web>>

\* a signed field of a signed and serialized credential is given another
\* value, the signature is kept, and the token goes to parseAndVerifyChat
TamperAndVerify(key, chat, field, value) ==
    /\ op = "idle"
    /\ field \in DOMAIN chat
    /\ value # chat[field]
    /\ op' = "tamper"
    /\ LET token == serializeChat(signChat(key, chat))
           tampered == [token EXCEPT !.text = SetMember(token.text, field, value)]
       IN  /\ arg' = [key |-> key, chat |-> chat, field |-> field,
                      value |-> value, token |-> tampered]
           /\ ret' = parseAndVerifyChat(key, tampered, now)
    /\ telegram' = <<>>
    /\ UNCHANGED <<now, env, issued, ext, web>>

ChatInit ==
    /\ now = Epoch
    /\ ext = Nothing
    /\ web = Nothing
    /\ env = ChatEnv
    /\ op = "idle"
    /\ arg = Nothing
    /\ ret = Nothing
    /\ telegram = <<>>
    /\ issued = {}

\* Two tokens that differ only in the name member, the first signed under
\* key, go to parseAndVerifyChat under vkey at the same time.
RenameAndVerify(key, vkey, chat, name) ==
    /\ op = "idle"
    /\ name # chat.name
    /\ op' = "rename"
    /\ LET token == serializeChat(signChat(key, chat))
           renamed == [token EXCEPT !.text = SetMember(token.text, "name", name)]
       IN  /\ arg' = [key |-> key, vkey |-> vkey, chat |-> chat, name |-> name]
           /\ ret' = <<parseAndVerifyChat(vkey, token, now),
                       parseAndVerifyChat(vkey, renamed, now)>>
    /\ telegram' = <<>>
    /\ UNCHANGED <<now, env, issued, ext, web>>

\* serializeChat, then parseChat, of a credential, signed or with sign ''
SerializeAndParse(chat, signed) ==
    /\ op = "idle"
    /\ op' = "roundtrip"
    /\ LET c == IF signed THEN signChat(<<Bases[1], "chat_token">>, chat) ELSE chat
       IN  /\ arg' = [chat |-> c]
           /\ ret' = parseChat(serializeChat(c))
    /\ telegram' = <<>>
    /\ UNCHANGED <<now, env, issued, ext, web>>

ChatNext ==
    \/ /\ op = "idle"
       /\ \E key \in ChatKeys, vkey \in ChatKeys, chat \in SchemaValid,
             n \in 1..Len(Names) :
            RenameAndVerify(key, vkey, chat, Names[n])
    \/ /\ op = "idle"
       /\ \E chat \in SchemaValid, signed \in BOOLEAN :
            SerializeAndParse(chat, signed)
    \/ /\ op = "idle"
       /\ \E key \in ChatKeys, chat \in SchemaValid : SignAndVerify(key, chat)
    \/ /\ op = "idle"
       /\ \E key \in ChatKeys, chat \in SchemaValid, field \in SignedFields :
            \E value \in FieldValues(field) :
                TamperAndVerify(key, chat, field, value)
    \/ Reply
    \/ Tick

ChatSpec == ChatInit /\ [][ChatNext]_vars

\* the expires of the credential c is set and not later than t
ExpiredAt(c, t) == "expires" \in DOMAIN c /\ c.expires <= t

\* C2: for every key and every schema-valid credential whose version is the
\* current version of its id and whose expires is absent or later than now,
\* signing, serializing, then parseAndVerifyChat and the version check
\* succeed and return the credential's id, version, name and expires.
C2_SignVerifyRoundTrip ==
    (op = "verify"
        /\ arg.chat.version = getChatTokenVersion(env, arg.chat.id)
        /\ ~ExpiredAt(arg.chat, now)) =>
        /\ ret.ok
        /\ \A k \in DOMAIN arg.chat \ {SIGN_FIELD} :
            k \in DOMAIN ret.chat /\ ret.chat[k] = arg.chat[k]
        /\ "expires" \in DOMAIN ret.chat => "expires" \in DOMAIN arg.chat

C2_Witness ==
    /\ op = "verify"
    /\ ret.ok
    /\ "expires" \in DOMAIN arg.chat
    /\ arg.chat.expires = now + 1
    /\ arg.chat.name # <<>>
    /\ ret.chat.name = arg.chat.name
    /\ ret.chat.id = arg.chat.id

\* the credential that the tampered token of a "tamper" state carries
TamperedChat ==
    [k \in DOMAIN arg.chat |-> IF k = arg.field THEN arg.value ELSE arg.chat[k]]

\* C3 as claimed: a signed field changed under an unchanged signature makes
\* parseAndVerifyChat fail with the invalid-signature outcome.
C3_TamperIsInvalidSign ==
    op = "tamper" => ret = Thrown("invalid sign")

\* C3: a signed field changed under an unchanged signature makes
\* parseAndVerifyChat fail: with the expired outcome when the expires of the
\* changed token is non-zero and not later than now, and with the
\* invalid-signature outcome otherwise.
C3_TamperFails ==
    op = "tamper" =>
        ret = IF ExpiredAt(TamperedChat, now) /\ TamperedChat.expires # 0
              THEN Thrown("expired")
              ELSE Thrown("invalid sign")

C3_Witness ==
    /\ op = "tamper"
    /\ arg.field = "expires"
    /\ arg.chat.expires = now + 1
    /\ arg.value = now + 2
    /\ ret = Thrown("invalid sign")

\* C6: a correctly signed credential whose expires is set and not later than
\* now is rejected as expired, and one whose expires is later than now or
\* absent is not rejected for expiry.
C6_ExpiryDecides ==
    op = "verify" =>
        IF ExpiredAt(arg.chat, now)
        THEN ret = Thrown("expired")
        ELSE ret.ok \/ ret.err # "expired"

-----------------------------------------------------------------------------
(* common.ts: a signature string is verified against a payload *)

HmacKeys == {AllKeys[1], AllKeys[2]}
HmacPayloads == {[id |-> i, version |-> v] : i \in Ids, v \in Versions}

\* the characters of the signature strings of the model: the digits that
\* encodeHex writes, and characters that it never writes
SignatureChars == HexLower \o <<"A", "g", " ", "-", "x">>

\* the string h with the two characters of byte p replaced by a and b
ReplacePair(h, p, a, b) ==
    [i \in 1..Len(h) |->
        IF i = 2 * p - 1 THEN a ELSE IF i = 2 * p THEN b ELSE h[i]]

\* String.prototype.toUpperCase on a string of hex digits
ToUpperCase(h) == [i \in 1..Len(h) |-> HexUpper[DigitVal(h[i]) + 1]]

\* The signature strings presented with a payload whose hex digest is h:
\* h, h in upper case, h with the first or the last byte rewritten in any
\* two characters, h truncated, h extended, and the digest of another key.
SignatureStrings(key, h) ==
    {h, ToUpperCase(h), h \o <<"0">>, h \o <<"0", "0">>}
    \cup {SubSeq(h, 1, n) : n \in {0, 2 * SIGN_BYTES - 2, 2 * SIGN_BYTES - 1}}
    \cup {ReplacePair(h, p, SignatureChars[a], SignatureChars[b]) :
            p \in {1, SIGN_BYTES},
            a \in 1..Len(SignatureChars), b \in 1..Len(SignatureChars)}
    \cup {hmacSha256Sign(k, [id |-> 0, version |-> 0]) : k \in HmacKeys \ {key}}

\* hmacSha256Verify(key, signature, jsonSortedStringify(payload)); neither
\* decodeHex nor crypto.subtle.verify throws on a string
VerifySignature(key, payload, signature) ==
    /\ op = "idle"
    /\ op' = "hmac"
    /\ arg' = [key |-> key, payload |-> payload, signature |-> signature]
    /\ ret' = [threw |-> FALSE,
               verified |->
                   hmacSha256Verify(key, signature, jsonSortedStringify(payload))]
    /\ telegram' = <<>>
    /\ UNCHANGED <<now, env, issued, ext, web>>

HmacNext ==
    \/ /\ op = "idle"
       /\ \E key \in HmacKeys, payload \in HmacPayloads :
            \E signature \in SignatureStrings(key, hmacSha256Sign(key, payload)) :
                VerifySignature(key, payload, signature)
    \/ Reply

HmacSpec == ChatInit /\ [][HmacNext]_vars

\* C4: hmacSha256Verify answers true only for the very string that
\* hmacSha256Sign produces for the key and the payload; every other string,
\* truncated or with characters that are no hex digits, is answered false,
\* and nothing is thrown.
C4_OnlyExactHexVerifies ==
    op = "hmac" =>
        /\ ~ret.threw
        /\ ret.verified => arg.signature = hmacSha256Sign(arg.key, arg.payload)

-----------------------------------------------------------------------------
(* auth.ts: a start token is issued, then parsed or verified *)

\* the key the verifier holds, and the keys tokens are signed with
VerifyKey == getStartTokenSignKey(ChatEnv, 0)
StartKeys == {VerifyKey, getStartTokenSignKey(ChatEnv, 1)}

StartTimes == Times \ {0 - 1}
StartOptions == {NoOptions, [flag |-> 1], [flag |-> 1, expires |-> 1]}

\* generateStartToken (first definition), then parseStartToken
IssueAndParse(key, ts, tokenUserId, options, userId, strict) ==
    /\ op = "idle"
    /\ op' = "parseStart"
    /\ arg' = [key |-> key, ts |-> ts, tokenUserId |-> tokenUserId,
               options |-> options, userId |-> userId, strict |-> strict,
               token |-> generateStartToken(key, ts, tokenUserId, options)]
    /\ ret' = parseStartToken(VerifyKey,
                  generateStartToken(key, ts, tokenUserId, options),
                  userId, strict, now)
    /\ telegram' = <<>>
    /\ UNCHANGED <<now, env, issued, ext, web>>

\* generateStartToken (second definition), then verifyStartToken
IssueAndVerify(key, ts, tokenUserId, userId, strict) ==
    /\ op = "idle"
    /\ op' = "verifyStart"
    /\ arg' = [key |-> key, ts |-> ts, tokenUserId |-> tokenUserId,
               options |-> NoOptions, userId |-> userId, strict |-> strict,
               token |-> generateStartTokenLE(key, ts, tokenUserId)]
    /\ ret' = <<verifyStartToken(VerifyKey,
                    generateStartTokenLE(key, ts, tokenUserId),
                    userId, strict, now)>>
    /\ telegram' = <<>>
    /\ UNCHANGED <<now, env, issued, ext, web>>

\* the keys a presented string may have been signed with, or is verified
\* under: the start-token keys and the keys of the other token classes
PresentKeys ==
    StartKeys \cup {getChatTokenSignKey(ChatEnv), getAuthTokenSignKey(ChatEnv)}

\* bytes with its last byte changed
FlipLast(bytes) ==
    [i \in 1..Len(bytes) |->
        IF i = Len(bytes) THEN (bytes[i] + 1) % 256 ELSE bytes[i]]

\* The strings presented at time t for user id u: the body of a token of
\* time t and user u followed by its digest under a key (signer is the
\* key), by the digest of another body, by a digest with a changed byte, by
\* a digest cut short or by a digest with a byte added (signer is <<>>).
PresentedStrings(t, u) ==
    LET body == StartBody(t, u, 0)
        digest == hmacSha256SignRaw(VerifyKey, body)
    IN  {[bytes |-> body \o hmacSha256SignRaw(k, body), signer |-> k] :
            k \in PresentKeys}
        \cup {[bytes |-> body \o d, signer |-> <<>>] :
                d \in {hmacSha256SignRaw(VerifyKey, StartBody(t, u + 1, 0)),
                       FlipLast(digest),
                       SubSeq(digest, 1, SIGN_BYTES - 1),
                       digest \o <<0>>}}

\* a string is presented to parseStartToken under the key vkey
PresentBytes(vkey, string, userId, strict) ==
    /\ op = "idle"
    /\ op' = "presentBytes"
    /\ arg' = [vkey |-> vkey, bytes |-> string.bytes, signer |-> string.signer,
               userId |-> userId, strict |-> strict]
    /\ ret' = parseStartToken(vkey, urlSafeBase64EncodeRaw(string.bytes),
                  userId, strict, now)
    /\ telegram' = <<>>
    /\ UNCHANGED <<now, env, issued, ext, web>>

\* One input of each failure kind at time t: the token in the layout of
\* parseStartToken (be) and of verifyStartToken (le), and the caller's id.
FailureCases(t) ==
    LET other == getStartTokenSignKey(ChatEnv, 1)
        old == Epoch - START_TOKEN_VALID_DURATION - Slack
        short(token) ==
            [token EXCEPT !.bytes = SubSeq(token.bytes, 1, Len(token.bytes) - 1)]
    IN  {[kind |-> "length", userId |-> 0,
          be |-> short(generateStartToken(VerifyKey, t, 0, NoOptions)),
          le |-> short(generateStartTokenLE(VerifyKey, t, 0))],
         [kind |-> "binding", userId |-> 0,
          be |-> generateStartToken(VerifyKey, t, 1, NoOptions),
          le |-> generateStartTokenLE(VerifyKey, t, 1)],
         [kind |-> "window", userId |-> 0,
          be |-> generateStartToken(VerifyKey, old, 0, NoOptions),
          le |-> generateStartTokenLE(VerifyKey, old, 0)],
         [kind |-> "hmac", userId |-> 0,
          be |-> generateStartToken(other, t, 0, NoOptions),
          le |-> generateStartTokenLE(other, t, 0)]}

\* two failing inputs go through parseStartToken and verifyStartToken
VerifyTwo(a, b) ==
    /\ op = "idle"
    /\ op' = "verifyTwo"
    /\ arg' = <<a, b>>
    /\ ret' = [parse |-> <<parseStartToken(VerifyKey, a.be, a.userId, FALSE, now),
                           parseStartToken(VerifyKey, b.be, b.userId, FALSE, now)>>,
               verify |-> <<verifyStartToken(VerifyKey, a.le, a.userId, FALSE, now),
                            verifyStartToken(VerifyKey, b.le, b.userId, FALSE, now)>>]
    /\ telegram' = <<>>
    /\ UNCHANGED <<now, env, issued, ext, web>>

\* the AuthOptions a caller may pass: fields absent, zero, and up to the
\* greatest byte
RangeOptions ==
    {NoOptions, [flag |-> 0], [expires |-> 0], [flag |-> 0, expires |-> 0],
     [flag |-> MaxOpt, expires |-> 0], [flag |-> 0, expires |-> 255],
     [flag |-> 255], [flag |-> 255, expires |-> MaxOpt]}

\* generateStartToken (first definition) with options, then parseStartToken
\* under the same key and for the same user id
IssueWithOptions(key, ts, userId, options) ==
    /\ op = "idle"
    /\ op' = "issueOptions"
    /\ LET token == generateStartToken(key, ts, userId, options)
       IN  /\ arg' = [key |-> key, ts |-> ts, userId |-> userId,
                      options |-> options, token |-> token]
           /\ ret' = parseStartToken(key, token, userId, FALSE, now)
    /\ telegram' = <<>>
    /\ UNCHANGED <<now, env, issued, ext, web>>

StartNext ==
    \/ /\ op = "idle"
       /\ \E key \in StartKeys, ts \in StartTimes \ {0}, userId \in Ids,
             options \in RangeOptions :
            IssueWithOptions(key, ts, userId, options)
    \/ /\ op = "idle"
       /\ \E a \in FailureCases(now), b \in FailureCases(now) : VerifyTwo(a, b)
    \/ /\ op = "idle"
       /\ \E vkey \in PresentKeys, userId \in 0..(MaxId - 1), strict \in BOOLEAN :
            \E string \in PresentedStrings(now, userId) :
                PresentBytes(vkey, string, userId, strict)
    \/ /\ op = "idle"
       /\ \E key \in StartKeys, ts \in StartTimes, tokenUserId \in Ids,
             options \in StartOptions, userId \in Ids, strict \in BOOLEAN :
            IssueAndParse(key, ts, tokenUserId, options, userId, strict)
    \/ /\ op = "idle"
       /\ \E key \in StartKeys, ts \in StartTimes, tokenUserId \in Ids,
             userId \in Ids, strict \in BOOLEAN :
            IssueAndVerify(key, ts, tokenUserId, userId, strict)
    \/ Reply
    \/ Tick

StartSpec == ChatInit /\ [][StartNext]_vars

\* a start token went through parseStartToken or verifyStartToken
StartChecked == op \in {"parseStart", "verifyStart"}
StartAccepted == ret[1]
CorrectlySigned == arg.key = VerifyKey

\* the binding the verifier is said to require of the token
BindingHolds ==
    IF arg.strict
    THEN arg.tokenUserId # 0 /\ arg.tokenUserId = arg.userId
    ELSE arg.tokenUserId = 0 \/ arg.tokenUserId = arg.userId

\* C8 as claimed: a correctly signed start token whose binding check passes
\* is accepted exactly when now - 15 min <= ts <= now + 60 s.
C8_WindowInclusive ==
    (StartChecked /\ CorrectlySigned /\ BindingHolds) =>
        (StartAccepted <=>
            /\ now - START_TOKEN_VALID_DURATION <= arg.ts
            /\ arg.ts <= now + FUTURE_SKEW)

\* C8: a correctly signed start token whose binding check passes is accepted
\* exactly when now - 15 min <= ts < now + 60 s: it is rejected on time
\* grounds when ts is more than 15 minutes older than now, or 60 seconds or
\* more ahead of now.
C8_Window ==
    (StartChecked /\ CorrectlySigned /\ BindingHolds) =>
        (StartAccepted <=>
            /\ now - START_TOKEN_VALID_DURATION <= arg.ts
            /\ arg.ts < now + FUTURE_SKEW)

C8_Witness ==
    /\ StartChecked
    /\ CorrectlySigned
    /\ BindingHolds
    /\ arg.ts = now + FUTURE_SKEW
    /\ ~StartAccepted

\* C9: under strictUserIdMatch a start token is accepted only if its user
\* id is not zero and is the caller's; a token of user id 0 is rejected for
\* every caller.
C9_StrictNeedsNonZeroId ==
    (StartChecked /\ arg.strict /\ StartAccepted) =>
        arg.tokenUserId # 0 /\ arg.tokenUserId = arg.userId

\* the token is correctly signed and its timestamp is inside the window
SignedInWindow ==
    /\ CorrectlySigned
    /\ now - START_TOKEN_VALID_DURATION <= arg.ts
    /\ arg.ts < now + FUTURE_SKEW

-----------------------------------------------------------------------------
(* Claims about the signature and the layout of a start token *)

\* C11: parseStartToken answers ok only if the last 32 bytes of the token
\* are the HMAC-SHA256 of its first 16 bytes under the key it is given, and
\* a token issued under one key is rejected under every other key, the
\* chat-token key of the same secret included.
C11_OkOnlyForTheKeysDigest ==
    /\ (op = "presentBytes" /\ ret[1]) =>
        /\ Len(arg.bytes) = BODY_BYTES + SIGN_BYTES
        /\ SubSeq(arg.bytes, BODY_BYTES + 1, Len(arg.bytes))
                = hmacSha256SignRaw(arg.vkey, SubSeq(arg.bytes, 1, BODY_BYTES))
    /\ (op = "presentBytes" /\ arg.signer # arg.vkey) => ~ret[1]
    /\ (op = "parseStart" /\ arg.key # VerifyKey) => ~ret[1]

C11_Witness ==
    /\ op = "presentBytes"
    /\ arg.signer = VerifyKey
    /\ arg.vkey = getChatTokenSignKey(ChatEnv)
    /\ Len(ret) = 2
    /\ ~ret[1]

\* the caller's id fails the binding of the token of a "parseStart" state
IssuedBindingFails ==
    (arg.strict \/ arg.tokenUserId # 0) /\ arg.tokenUserId # arg.userId

\* the timestamp of the token of a "parseStart" state is inside the window
IssuedInWindow ==
    /\ now - START_TOKEN_VALID_DURATION <= arg.ts
    /\ arg.ts < now + FUTURE_SKEW

\* C18 as claimed: parseStartToken returns the AuthOptions of the token's
\* flag bits for every token of 48 bytes, whatever the binding, the window
\* and the signature checks say.
C18_OptionsAlways ==
    /\ op = "parseStart" => (Len(ret) = 2 /\ ret[2] = arg.options)
    /\ (op = "presentBytes" /\ Len(arg.bytes) = BODY_BYTES + SIGN_BYTES) =>
            (Len(ret) = 2 /\ ret[2] = NoOptions)

\* C18: parseStartToken returns the AuthOptions of the token's flag bits
\* for every token of 48 bytes that passes the binding and the window
\* checks, whether or not the signature check succeeds; for a token that
\* fails the binding or the window check it returns [false] and no options.
C18_OptionsPastBindingAndWindow ==
    /\ op = "parseStart" =>
            IF IssuedBindingFails \/ ~IssuedInWindow
            THEN ret = <<FALSE>>
            ELSE Len(ret) = 2 /\ ret[2] = arg.options
    /\ op = "presentBytes" =>
            IF Len(arg.bytes) = BODY_BYTES + SIGN_BYTES
            THEN Len(ret) = 2 /\ ret[2] = NoOptions
            ELSE ret = <<FALSE>>

C18_Witness ==
    /\ op = "parseStart"
    /\ arg.key # VerifyKey
    /\ arg.options = [flag |-> 1]
    /\ ret = <<FALSE, [flag |-> 1]>>

\* C19 as claimed: failures of different kinds (wrong length, binding,
\* window, HMAC) are reported as outcomes the caller can tell apart.
C19_FailuresDiffer ==
    (op = "verifyTwo" /\ arg[1].kind # arg[2].kind) =>
        /\ ret.parse[1] # ret.parse[2]
        /\ ret.verify[1] # ret.verify[2]

\* C19: every failure is reported as ok = false; verifyStartToken returns
\* the same false for all four kinds, and parseStartToken returns [false]
\* for a wrong length, a binding failure and a timestamp outside the window
\* and [false, options] for a bad HMAC, so that only a bad HMAC differs.
C19_FailuresCollapse ==
    op = "verifyTwo" =>
        /\ ret.verify = <<FALSE, FALSE>>
        /\ \A i \in 1..2 :
            ret.parse[i] = IF arg[i].kind = "hmac" THEN <<FALSE, NoOptions>>
                           ELSE <<FALSE>>

C19_Witness ==
    /\ op = "verifyTwo"
    /\ arg[1].kind = "length"
    /\ arg[2].kind = "window"
    /\ ret.parse[1] = ret.parse[2]
    /\ ret.verify[1] = ret.verify[2]

\* the 48 bytes of the token of a "parseStart" or "verifyStart" state
TokenBytes == arg.token.bytes

\* the last 32 bytes are the HMAC-SHA256 of the first 16 under the key
DigestFollowsBody ==
    /\ arg.token.kind = "b64"
    /\ Len(TokenBytes) = BODY_BYTES + SIGN_BYTES
    /\ SubSeq(TokenBytes, BODY_BYTES + 1, Len(TokenBytes))
            = hmacSha256SignRaw(arg.key, SubSeq(TokenBytes, 1, BODY_BYTES))

\* flags in the top 16 bits and ts in the low 48 bits of a big-endian
\* word, then the user id, big-endian and signed
BigEndianLayout ==
    /\ UnsignedBE(SubSeq(TokenBytes, 1, 2))
            = serializeAuthOptionsToNumber(arg.options)
    /\ UnsignedBE(SubSeq(TokenBytes, 3, 8)) = arg.ts
    /\ SignedBE(SubSeq(TokenBytes, 9, 16)) = arg.tokenUserId

\* ts, then the user id, each little-endian and signed
LittleEndianLayout ==
    /\ SignedLE(SubSeq(TokenBytes, 1, 8)) = arg.ts
    /\ SignedLE(SubSeq(TokenBytes, 9, 16)) = arg.tokenUserId

\* C20 as claimed: every token of generateStartToken, of either
\* definition, is 48 bytes in the big-endian layout followed by the digest.
C20_BigEndianTokens ==
    StartChecked => (DigestFollowsBody /\ BigEndianLayout)

\* C20: a token of the generateStartToken that takes AuthOptions is 48
\* bytes: flags and ts in one big-endian word, the user id big-endian and
\* signed, then the digest of these 16 bytes; a token of the second
\* generateStartToken holds ts and the user id little-endian, and no flags.
C20_TokenLayout ==
    /\ op = "parseStart" => (DigestFollowsBody /\ BigEndianLayout)
    /\ op = "verifyStart" => (DigestFollowsBody /\ LittleEndianLayout)

C20_Witness ==
    /\ op = "parseStart"
    /\ arg.options = [flag |-> 1, expires |-> 1]
    /\ arg.tokenUserId < 0
    /\ arg.ts > 65536
    /\ BigEndianLayout

-----------------------------------------------------------------------------
(* Claims about the name of a credential and the round trip of its fields *)

\* C16: two serialized credentials that differ only in name get the same
\* verdict from parseAndVerifyChat under every key and at every time, and
\* an accepted credential is returned with the name it was presented with.
C16_NameIsNotSigned ==
    op = "rename" =>
        /\ ret[1].ok = ret[2].ok
        /\ ~ret[1].ok => ret[1].err = ret[2].err
        /\ ret[1].ok =>
            /\ ret[1].chat.name = arg.chat.name
            /\ ret[2].chat.name = arg.name
            /\ \A k \in DOMAIN ret[1].chat \ {"name"} :
                k \in DOMAIN ret[2].chat /\ ret[2].chat[k] = ret[1].chat[k]

C16_Witness ==
    /\ op = "rename"
    /\ ret[2].ok
    /\ arg.chat.name = <<"A">>
    /\ ret[2].chat.name = <<"B">>

-----------------------------------------------------------------------------
(* Claims about the exchange of an auth token for a chat token *)

\* the credential of the chat token that /api/auth returned
ReturnedChat == parseChat(ret.body.chat_token).chat

\* C13: the chat token /api/auth returns for an accepted auth token has the
\* id, the version and the name of the auth token, and a signature that is
\* the digest of its signed fields under the chat-token key.
C13_ResignedUnderChatKey ==
    (op = "auth" /\ ret.status = 200) =>
        LET a == parseChat(arg.auth_token).chat
            c == ReturnedChat
            payload == [k \in DOMAIN c \ NOSIGN_FIELDS |-> c[k]]
        IN  /\ c.id = a.id
            /\ c.version = a.version
            /\ c.name = a.name
            /\ c.sign = hmacSha256Sign(getChatTokenSignKey(env), payload)
            /\ hmacSha256Verify(getChatTokenSignKey(env), c.sign,
                                jsonSortedStringify(payload))
            /\ c.sign # a.sign

C13_Witness ==
    /\ op = "auth"
    /\ ret.status = 200
    /\ arg.expires.has
    /\ "expires" \in DOMAIN ReturnedChat
    /\ ReturnedChat.expires = now + 1
    /\ ReturnedChat.name # <<>>

-----------------------------------------------------------------------------
(* index.ts: /api/start and /api/webhook *)

\* buildVariables.PUBLIC_LEVEL is 0, 1 or 2
Levels == 0..2

\* The deployments of the hooks: env, with the bot's name (BOT_NAME of env
\* or of the build) and the build variables PUBLIC_LEVEL and START_TOKEN.
\* A deployment starts private; Redeploy changes the build variables.
HookEnvs ==
    {[BOT_TOKEN |-> e.BOT_TOKEN, TOKEN |-> e.TOKEN, BOT_NAME |-> "bot",
      PUBLIC_LEVEL |-> 0, START_TOKEN |-> ""] : e \in Envs}
    \cup {[BOT_TOKEN |-> "T", TOKEN |-> "S", BOT_NAME |-> "",
           PUBLIC_LEVEL |-> 0, START_TOKEN |-> ""]}

\* start tokens that are no base64 of 48 bytes: the static START_TOKEN of
\* the build, the empty string, and a string atob rejects
StaticToken == [kind |-> "static"]
EmptyToken == [kind |-> "empty"]
RawToken == [kind |-> "raw"]

\* buildVariables.START_TOKEN as /api/start returns it
BuildStartToken(e) == IF e.START_TOKEN = "" THEN EmptyToken ELSE StaticToken

\* the fields of a form that /api/start reads: token, and user as
\* parseStrictInt reads it (has is false when it is absent or no integer)
StartForms ==
    [token : {"", "S", "T"},
     user : {[has |-> FALSE]} \cup {[has |-> TRUE, v |-> u] : u \in 0..MaxId}]

\* StartAuthorized that accepts any token that is not empty
StartAuthorizedAnyToken(e, form) ==
    e.PUBLIC_LEVEL > 0 \/ form.token # ""

\* PUBLIC_LEVEL <= 0 requires token to be env.TOKEN || env.BOT_TOKEN
StartAuthorized(e, form) ==
    e.PUBLIC_LEVEL > 0 \/ (form.token # "" /\ form.token = BaseSecret(e))

\* the start tokens of a response body, as the client keeps them: with the
\* PUBLIC_LEVEL of the deployment and whether the request held TOKEN
IssuedBy(body, e, form) ==
    {[token |-> body[k], level |-> e.PUBLIC_LEVEL,
      holder |-> form.token = BaseSecret(e)] : k \in DOMAIN body}

\* router.post('/api/start')
ApiStart(form) ==
    /\ op = "idle"
    /\ op' = "start"
    /\ arg' = form
    /\ telegram' = <<>>
    /\ UNCHANGED <<now, env, ext, web>>
    /\ IF env.BOT_TOKEN = "" \/ env.BOT_NAME = ""
       THEN ret' = Response(500, Nothing) /\ UNCHANGED issued
       ELSE IF env.PUBLIC_LEVEL = 2
       THEN LET body == [start_token |-> BuildStartToken(env)]
            IN  ret' = Response(200, body) /\ issued' = IssuedBy(body, env, form)
       ELSE IF ~StartAuthorized(env, form)
       THEN ret' = Response(401, Nothing) /\ UNCHANGED issued
       ELSE
        LET key == getStartTokenSignKey(env, env.PUBLIC_LEVEL)
            start_token == generateStartTokenLE(key, now, 0)
            body == IF form.user.has /\ form.user.v # 0
                    THEN [start_token |-> start_token,
                          user_start_token |->
                              generateStartTokenLE(key, now, form.user.v)]
                    ELSE [start_token |-> start_token]
        IN  ret' = Response(200, body) /\ issued' = IssuedBy(body, env, form)

\* a start token signed by somebody who holds another secret
ForgedToken(e, t) ==
    generateStartTokenLE(<<OtherSecret(e), LevelStr(e.PUBLIC_LEVEL),
                           "start_token">>, t, 0)

\* the text of update.message: none, a text that is no /start command, or
\* /start with the start token after it
HookTexts(e, t) ==
    {[cmd |-> "none"], [cmd |-> "other"]}
    \cup {[cmd |-> "start", token |-> x] :
             x \in {r.token : r \in issued}
                   \cup {EmptyToken, RawToken, ForgedToken(e, t)}}

\* the fields of a request that /api/webhook reads: whether the secret
\* header is the bot's, the text, the sender's user id and the chat's id
\* (the sender's in a private chat, negative in a group)
Updates(e, t) ==
    UNION {{[secret |-> s, text |-> x, from |-> f, chat |-> c] :
                s \in BOOLEAN, x \in HookTexts(e, t),
                c \in {f} \cup (0 - MaxId)..(0 - 1)} : f \in 1..MaxId}

\* StartTokenOk that never asks for a strict match of the user id
StartTokenOkNotStrict(e, startToken, from, chatId, t) ==
    IF e.PUBLIC_LEVEL = 2
    THEN e.START_TOKEN = "" \/ startToken = StaticToken
    ELSE verifyStartToken(getStartTokenSignKey(e, e.PUBLIC_LEVEL),
                          startToken, from, FALSE, t)

\* startTokenOk of /api/webhook
StartTokenOk(e, startToken, from, chatId, t) ==
    IF e.PUBLIC_LEVEL = 2
    THEN e.START_TOKEN = "" \/ startToken = StaticToken
    ELSE verifyStartToken(getStartTokenSignKey(e, e.PUBLIC_LEVEL),
                          startToken, from, chatId < 0, t)

\* the chat that /api/webhook signs for update at time t
NewChat(e, update, t) ==
    [id |-> update.chat, name |-> Names[2], sign |-> <<>>,
     version |-> getChatTokenVersion(e, update.chat),
     expires |-> t + AUTH_TOKEN_VALID_DURATION]

\* sendMessage(env.BOT_TOKEN, chat_id, ...) with text the welcome message
\* ("welcome", which holds the link with the token) or the token alone
HookMessage(chat_id, kind, chatToken) ==
    [method |-> "sendMessage", chat_id |-> chat_id,
     text |-> [kind |-> kind, token |-> chatToken]]

\* router.post('/api/webhook'); sent is false when Telegram refuses the
\* first message, and sendMessage throws
Webhook(update, sent) ==
    /\ op = "idle"
    /\ op' = "hook"
    /\ arg' = update
    /\ UNCHANGED <<now, env, issued, ext, web>>
    /\ IF env.BOT_TOKEN = ""
       THEN ret' = Response(500, Nothing) /\ telegram' = <<>>
       ELSE IF ~update.secret
       THEN ret' = Response(401, Nothing) /\ telegram' = <<>>
       ELSE IF update.text.cmd # "start"
       THEN ret' = Response(200, Nothing) /\ telegram' = <<>>
       ELSE IF ~StartTokenOk(env, update.text.token, update.from,
                             update.chat, now)
       THEN ret' = Response(200, Nothing) /\ telegram' = <<>>
       ELSE
        LET chatToken == serializeChat(
                signChat(getAuthTokenSignKey(env), NewChat(env, update, now)))
            welcome == HookMessage(update.from, "welcome", chatToken)
        IN  IF sent
            THEN /\ telegram' = <<welcome,
                                  HookMessage(update.from, "token", chatToken)>>
                 /\ ret' = Response(200, Nothing)
            ELSE /\ telegram' = <<welcome>>
                 /\ ret' = Response(500, Nothing)

\* a re-deployment with other build variables; START_TOKEN is set only
\* for a fully public service
Redeploy(level, start_token) ==
    /\ op = "idle"
    /\ <<level, start_token>> # <<env.PUBLIC_LEVEL, env.START_TOKEN>>
    /\ start_token # "" => level = 2
    /\ env' = [env EXCEPT !.PUBLIC_LEVEL = level, !.START_TOKEN = start_token]
    /\ UNCHANGED <<now, op, arg, ret, telegram, issued, ext, web>>

HookInit ==
    /\ now = Epoch
    /\ ext = Nothing
    /\ web = Nothing
    /\ op = "idle"
    /\ arg = Nothing
    /\ ret = Nothing
    /\ telegram = <<>>
    /\ env \in HookEnvs
    /\ issued = {}

HookNext ==
    \/ \E form \in StartForms : ApiStart(form)
    \/ /\ op = "idle"
       /\ \E update \in Updates(env, now), sent \in BOOLEAN :
            Webhook(update, sent)
    \/ \E level \in Levels, start_token \in {"", "static"} :
            Redeploy(level, start_token)
    \/ Reply
    \/ Tick

HookSpec == HookInit /\ [][HookNext]_vars

\* the webhook sent (or tried to send) an auth token
HookSent == op = "hook" /\ telegram # <<>>

\* the records of the start token that the /start message presented
Presented == {r \in issued : r.token = arg.text.token}

\* /api/start answered with a start token
StartIssued == op = "start" /\ "start_token" \in DOMAIN ret.body

\* the original statement of C14: at PUBLIC_LEVEL 0 a start token goes only to
\* a request whose token is TOKEN (or BOT_TOKEN), every other request gets
\* 401 and no start token, and the webhook sends an auth token only for a
\* start token issued to a holder of TOKEN.
C14_OthersGet401 ==
    env.PUBLIC_LEVEL = 0 =>
        /\ StartIssued => arg.token = BaseSecret(env)
        /\ (op = "start" /\ arg.token # BaseSecret(env)) =>
                (ret.status = 401 /\ ret.body = Nothing)
        /\ HookSent => \E r \in Presented : r.holder /\ r.level = 0

\* C14: at PUBLIC_LEVEL 0 a start token goes only to a request whose token is
\* TOKEN (or BOT_TOKEN); every other request gets no start token and status
\* 401, or 500 when BOT_TOKEN or the bot's name is not configured; and the
\* webhook sends an auth token only for a start token issued at level 0 to a
\* holder of TOKEN.
C14_PrivateStart ==
    env.PUBLIC_LEVEL = 0 =>
        /\ StartIssued => (arg.token = BaseSecret(env) /\ ret.status = 200)
        /\ (op = "start" /\ arg.token # BaseSecret(env)) =>
                /\ ret.body = Nothing
                /\ ret.status =
                       IF env.BOT_TOKEN = "" \/ env.BOT_NAME = "" THEN 500 ELSE 401
        /\ HookSent => \E r \in Presented : r.holder /\ r.level = 0

C14_Witness ==
    /\ env.PUBLIC_LEVEL = 0
    /\ HookSent
    /\ Len(telegram) = 2
    /\ arg.chat = arg.from
    /\ \E r \in Presented : r.holder

\* the original statement of C15: the webhook accepts no start token issued
\* under a PUBLIC_LEVEL other than the present one.
C15_LevelChangeInvalidates ==
    HookSent => \A r \in Presented : r.level = env.PUBLIC_LEVEL

\* C15: the webhook accepts a start token issued under a PUBLIC_LEVEL other
\* than the present one only when the present level is 2 and START_TOKEN is
\* unset, where every /start is accepted.
C15_LevelChangeInvalidatesBelowTwo ==
    (HookSent /\ \E r \in Presented : r.level # env.PUBLIC_LEVEL) =>
        (env.PUBLIC_LEVEL = 2 /\ env.START_TOKEN = "")

\* a start token that the level it was issued under would still accept is
\* refused after the change of level
C15_Witness ==
    /\ op = "hook"
    /\ arg.secret
    /\ arg.text.cmd = "start"
    /\ env.PUBLIC_LEVEL # 2
    /\ env.BOT_TOKEN # ""
    /\ telegram = <<>>
    /\ ret.status = 200
    /\ \E r \in Presented :
          /\ r.level \in {0, 1} \ {env.PUBLIC_LEVEL}
          /\ verifyStartToken(getStartTokenSignKey(env, r.level), r.token,
                              arg.from, arg.chat < 0, now)

\* the chat of the auth token in the first message of the webhook
SentChat == parseChat(telegram[1].text.token).chat

\* the user id in a start token of /api/start, 0 - 1 - MaxId (no user's id)
\* when the token has no such field
StartTokenUserId(token) ==
    IF token.kind = "b64" /\ Len(token.bytes) = BODY_BYTES + SIGN_BYTES
    THEN SignedLE(SubSeq(token.bytes, 9, 16))
    ELSE 0 - 1 - MaxId

\* what C12 says of the auth token that was sent
CredentialAsStated ==
    LET c == SentChat
        payload == [k \in DOMAIN c \ NOSIGN_FIELDS |-> c[k]]
    IN  /\ \A i \in 1..Len(telegram) :
              /\ telegram[i].method = "sendMessage"
              /\ telegram[i].chat_id = arg.from
              /\ telegram[i].text.token = telegram[1].text.token
        /\ c.id = arg.chat
        /\ c.version = getChatTokenVersion(env, arg.chat)
        /\ c.expires = now + AUTH_TOKEN_VALID_DURATION
        /\ c.sign = hmacSha256Sign(getAuthTokenSignKey(env), payload)
        /\ parseAndVerifyChat(getAuthTokenSignKey(env),
                              telegram[1].text.token, now).ok

\* the original statement of C12: the start token passed verifyStartToken,
\* or at PUBLIC_LEVEL 2 the comparison with START_TOKEN, and in a group chat
\* it is bound to the sender.
C12_VerifiedAndBound ==
    HookSent =>
        /\ arg.secret
        /\ arg.text.cmd = "start"
        /\ IF env.PUBLIC_LEVEL = 2
           THEN arg.text.token = BuildStartToken(env)
           ELSE verifyStartToken(getStartTokenSignKey(env, env.PUBLIC_LEVEL),
                                 arg.text.token, arg.from, arg.chat < 0, now)
        /\ CredentialAsStated
        /\ arg.chat < 0 => StartTokenUserId(arg.text.token) = arg.from

\* C12: the webhook sends an auth token only in response to a /start message
\* whose start token passed verifyStartToken at PUBLIC_LEVEL 0 or 1, or at
\* PUBLIC_LEVEL 2 is START_TOKEN when START_TOKEN is set (any start token
\* passes when it is unset); the credential has the id of the chat, its
\* current version, expires = now + AUTH_TOKEN_VALID_DURATION and a signature
\* under the auth-token key; in a group chat at PUBLIC_LEVEL 0 or 1 the start
\* token is bound to the sender's user id.
C12_AuthTokenOnlyForStart ==
    HookSent =>
        /\ arg.secret
        /\ arg.text.cmd = "start"
        /\ IF env.PUBLIC_LEVEL = 2
           THEN env.START_TOKEN = "" \/ arg.text.token = StaticToken
           ELSE verifyStartToken(getStartTokenSignKey(env, env.PUBLIC_LEVEL),
                                 arg.text.token, arg.from, arg.chat < 0, now)
        /\ CredentialAsStated
        /\ (arg.chat < 0 /\ env.PUBLIC_LEVEL # 2) =>
                StartTokenUserId(arg.text.token) = arg.from

C12_Witness ==
    /\ HookSent
    /\ Len(telegram) = 2
    /\ arg.chat < 0
    /\ env.PUBLIC_LEVEL = 1
    /\ StartTokenUserId(arg.text.token) = arg.from

-----------------------------------------------------------------------------
(* /api/auth: the expires of the chat token *)

\* C24: the chat token of /api/auth has no expires when the request supplies
\* none, and has the supplied integer as its expires whenever the request
\* supplies one; the expires of the auth token is never carried over.
C24_ExpiresAsRequested ==
    (op = "auth" /\ ret.status = 200) =>
        /\ ~arg.expires.has => "expires" \notin DOMAIN ReturnedChat
        /\ (arg.expires.has /\ arg.expires.int) =>
                /\ "expires" \in DOMAIN ReturnedChat
                /\ ReturnedChat.expires = arg.expires.v

-----------------------------------------------------------------------------
(* auth.ts: the checks of a presented credential, and signChat's frame *)

\* the credentials of this part: every choice of id, version and expires
CredChats == {c \in SchemaValid : c.name = Names[2]}
CredKey == <<Bases[2], "chat_token">>

\* the JSON text without the members named in dropped
DropMembers(text, dropped) == SelectSeq(text, LAMBDA m : m[1] \notin dropped)

\* the JSON text with member k, if any, given a value of the wrong type:
\* a string for a number, a number for a string
Retype(text, k) ==
    [i \in 1..Len(text) |->
        IF text[i][1] # k THEN text[i]
        ELSE IF k \in StringKeys THEN <<k, <<"num", 1>>>>
        ELSE <<k, <<"str", Names[2]>>>>]

\* the JSON text with "version": 0 added when it has no version
WithVersionZero(text) ==
    IF HasMember(text, "version") THEN text
    ELSE text \o << <<"version", <<"num", 0>>>> >>

\* the sets of members a client may leave out of the JSON text
DropSets == {d \in SUBSET {"expires", "id", "name", "sign", "version"} :
                Cardinality(d) <= 2}

\* A credential is signed and serialized, the client drops some members of
\* the JSON text and may give one a value of the wrong type; the token goes
\* to parseChat, to parseAndVerifyChat with the version check, and so does
\* the same token with "version": 0 written out.
ParseVariant(chat, dropped, wrong) ==
    /\ op = "idle"
    /\ wrong \notin dropped
    /\ wrong \in DOMAIN chat \cup {"none"}
    /\ op' = "parse"
    /\ LET signed == serializeChat(signChat(CredKey, chat))
           text == Retype(DropMembers(signed.text, dropped), wrong)
           token == urlSafeBase64Encode(text)
           zero == urlSafeBase64Encode(WithVersionZero(text))
       IN  /\ arg' = [key |-> CredKey, chat |-> chat, dropped |-> dropped,
                      wrong |-> wrong, token |-> token]
           /\ ret' = [parse |-> parseChat(token),
                      verify |-> VerifyCredential(CredKey, token, env, now),
                      zero |-> VerifyCredential(CredKey, zero, env, now)]
    /\ telegram' = <<>>
    /\ UNCHANGED <<now, env, issued, ext, web>>

\* signChatInput with record an alias of chat and not a copy
signChatInputAliased(token, chat) ==
    [k \in DOMAIN chat \cup {SIGN_FIELD} |->
        IF k = SIGN_FIELD
        THEN hmacSha256Sign(token, [j \in DOMAIN chat \ NOSIGN_FIELDS |-> chat[j]])
        ELSE chat[k]]

\* the object passed to signChat, after the call: record and payload are
\* copies ({ ...chat }, { ...record }), so it is as it was
signChatInput(token, chat) == chat

\* signChat of a credential, of its own result, and of a credential that
\* differs from the first in name and sign only
SignAgain(key, chat, name, presigned) ==
    /\ op = "idle"
    /\ name # chat.name
    /\ op' = "sign"
    /\ LET first == signChat(key, chat)
           other == [chat EXCEPT !.name = name,
                                 !.sign = IF presigned
                                          THEN hmacSha256Sign(CredKey, [id |-> 0])
                                          ELSE <<>>]
       IN  /\ arg' = [key |-> key, chat |-> chat, other |-> other]
           /\ ret' = [input |-> signChatInput(key, chat),
                      first |-> first,
                      again |-> signChat(key, first),
                      other |-> signChat(key, other)]
    /\ telegram' = <<>>
    /\ UNCHANGED <<now, env, issued, ext, web>>

CredNext ==
    \/ /\ op = "idle"
       /\ \E chat \in CredChats, dropped \in DropSets,
             wrong \in {"none", "expires", "id", "name", "sign", "version"} :
            ParseVariant(chat, dropped, wrong)
    \/ /\ op = "idle"
       /\ \E key \in ChatKeys, chat \in SchemaValid, n \in 1..Len(Names),
             presigned \in BOOLEAN :
            SignAgain(key, chat, Names[n], presigned)
    \/ Reply
    \/ Tick

CredSpec == ChatInit /\ [][CredNext]_vars

\* the JSON text of the token of a "parse" state, and its type test of id
ParsedText == arg.token.text
IdIsNumber ==
    HasMember(ParsedText, "id")
        /\ \E i \in 1..Len(ParsedText) :
              ParsedText[i][1] = "id" /\ ParsedText[i][2][1] = "num"

\* the outcome of the first check to fail, in the order schema, expiry,
\* empty signature, HMAC, version; expired is expires set and <= t
FirstFailure(key, text, e, t) ==
    IF ~SchemaOk(text) THEN Thrown("schema")
    ELSE
        LET c == SchemaParse(text)
            payload == [k \in DOMAIN c \ NOSIGN_FIELDS |-> c[k]]
        IN  IF ExpiredAt(c, t) THEN Thrown("expired")
            ELSE IF c.sign = <<>> THEN Thrown("no sign")
            ELSE IF c.sign # hmacSha256Sign(key, payload) THEN Thrown("invalid sign")
            ELSE IF c.version # getChatTokenVersion(e, c.id) THEN Thrown("revoked")
            ELSE [ok |-> TRUE, chat |-> c]

\* C23: parseAndVerifyChat checks schema, expiry, empty signature and HMAC in
\* this order and the endpoint checks the version last; the first check to
\* fail decides the outcome: an expired token is reported as expired also
\* when its signature is invalid or empty, and a credential with an empty
\* signature is never accepted.
C23_FirstFailureDecides ==
    op = "parse" =>
        /\ ret.verify = FirstFailure(arg.key, ParsedText, env, now)
        /\ (ret.verify.ok => ret.verify.chat.sign # <<>>)


\* the members of the JSON text other than id have the types of the schema
OthersWellTyped ==
    \A i \in 1..Len(ParsedText) :
        \/ ParsedText[i][1] = "id"
        \/ ParsedText[i][2][1] =
              (IF ParsedText[i][1] \in StringKeys THEN "str" ELSE "num")

\* the defaults of the schema in the result of parseChat: version 0, name ''
\* and sign '' for absent members, an absent expires left absent, and the
\* members that are present as they are
DefaultsFilled ==
    LET c == ret.parse.chat
    IN  /\ DOMAIN c \ {"expires"} = {"id", "version", "name", "sign"}
        /\ \A k \in DOMAIN c :
              IF HasMember(ParsedText, k) THEN c[k] = Member(ParsedText, k)
              ELSE /\ k # "expires"
                   /\ c[k] = (IF k = "version" THEN 0 ELSE <<>>)
        /\ HasMember(ParsedText, "expires") => "expires" \in DOMAIN c

\* the original statement of C26: parseChat fails for a token without a
\* numeric id and for every other token fills the defaults.
C26_DefaultsForEveryOther ==
    op = "parse" =>
        /\ ~IdIsNumber => ~ret.parse.ok
        /\ IdIsNumber => (ret.parse.ok /\ DefaultsFilled)
        /\ ~HasMember(ParsedText, "version") => ret.verify = ret.zero

\* C26: parseChat fails for every token whose JSON has no id or an id that is
\* no number, and for every token in which another member has a type the
\* schema does not allow; for every other token it fills absent members with
\* version = 0, name = '' and sign = '' and leaves an absent expires absent;
\* a token that omits version is verified exactly like the same token with
\* version 0.
C26_SchemaDefaults ==
    op = "parse" =>
        /\ (~IdIsNumber \/ ~OthersWellTyped) => ~ret.parse.ok
        /\ (IdIsNumber /\ OthersWellTyped) => (ret.parse.ok /\ DefaultsFilled)
        /\ ~HasMember(ParsedText, "version") => ret.verify = ret.zero

\* a correctly signed token of version 0 that leaves version out is accepted
C26_Witness ==
    /\ op = "parse"
    /\ arg.dropped = {"version"}
    /\ arg.wrong = "none"
    /\ ret.parse.ok
    /\ ret.parse.chat.version = 0
    /\ ret.verify.ok
    /\ ret.zero.ok


-----------------------------------------------------------------------------
(* start tokens: the round trip of the options *)

\* o with its zero-valued fields left out
WithoutZeros(o) == [k \in {j \in DOMAIN o : o[j] # 0} |-> o[k]]

\* C25: for every key, timestamp, user id and AuthOptions with flag and
\* expires in 0..255, parseStartToken under the key and for the user id of
\* generateStartToken's token, at a time inside the validity window of the
\* timestamp, returns ok = true and the options without their zero-valued
\* fields.
C25_OptionsRoundTrip ==
    (op = "issueOptions" /\ IssuedInWindow) =>
        ret = <<TRUE, WithoutZeros(arg.options)>>

C25_Witness ==
    /\ op = "issueOptions"
    /\ IssuedInWindow
    /\ arg.options = [flag |-> 0, expires |-> 255]
    /\ arg.userId < 0
    /\ ret = <<TRUE, [expires |-> 255]>>

-----------------------------------------------------------------------------
(* auth.ts: calls that run at the same time *)

\* Two calls of the library are in flight at once. arg holds the two
\* requests and ret, for each, where the call is: "new", "await" after the
\* synchronous part, which reads Date.now() into t, up to the first await,
\* and "done" with the promise's value in out. The calls share no variable:
\* auth.ts and common.ts keep no state outside the locals of a call.
Slots == {1, 2}

\* the requests: start tokens are verified, parsed and issued, and a chat
\* token is verified; ts is the timestamp of the token presented, fresh or
\* at the early end of the window, and good says the key and the user fit
ParRequests(t) ==
    LET old == Epoch - START_TOKEN_VALID_DURATION
        other == getStartTokenSignKey(ChatEnv, 1)
        chatKey == getChatTokenSignKey(ChatEnv)
        chat == [id |-> 1, version |-> 0, name |-> Names[2], sign |-> <<>>,
                 expires |-> Epoch + 1]
    IN  {[kind |-> "verifyStart", key |-> VerifyKey, userId |-> u, strict |-> FALSE,
          ts |-> ts, good |-> TRUE,
          token |-> generateStartTokenLE(VerifyKey, ts, u)] :
            ts \in {t, old}, u \in {0, 1}}
        \cup {[kind |-> "verifyStart", key |-> VerifyKey, userId |-> 0,
               strict |-> FALSE, ts |-> t, good |-> FALSE,
               token |-> generateStartTokenLE(other, t, 0)],
              [kind |-> "parseStart", key |-> VerifyKey, userId |-> 1,
               strict |-> TRUE, ts |-> old, good |-> TRUE,
               token |-> generateStartToken(VerifyKey, old, 1, [flag |-> 1])],
              [kind |-> "issue", key |-> VerifyKey, userId |-> 0, ts |-> t],
              [kind |-> "chat", key |-> chatKey,
               token |-> serializeChat(signChat(chatKey, chat))]}

StartCalls(a, b) ==
    /\ op = "idle"
    /\ op' = "calls"
    /\ arg' = <<a, b>>
    /\ ret' = <<[pc |-> "new"], [pc |-> "new"]>>
    /\ telegram' = <<>>
    /\ UNCHANGED <<now, env, issued, ext, web>>

\* the synchronous part of call i, which reads the clock
CallBegin(i) ==
    /\ op = "calls"
    /\ ret[i].pc = "new"
    /\ ret' = [ret EXCEPT ![i] = [pc |-> "await", t |-> now]]
    /\ UNCHANGED <<now, op, arg, telegram, env, issued, ext, web>>

\* CallValue of a library that remembers the start tokens it has verified
\* and refuses them the second time
CallValueOnce(i) ==
    LET c == arg[i]
        t == ret[i].t
        seen == \E j \in Slots \ {i} : ret[j].pc = "done" /\ arg[j] = c
    IN  CASE c.kind = "verifyStart" ->
                ~seen /\ verifyStartToken(c.key, c.token, c.userId, c.strict, t)
          [] c.kind = "parseStart" ->
                parseStartToken(c.key, c.token, c.userId, c.strict, t)
          [] c.kind = "issue" -> generateStartTokenLE(c.key, c.ts, c.userId)
          [] c.kind = "chat" -> VerifyCredential(c.key, c.token, env, t)

\* the value call i resolves to: computed from its own arguments and its
\* own reading of the clock
CallValue(i) ==
    LET c == arg[i]
        t == ret[i].t
    IN  CASE c.kind = "verifyStart" ->
                verifyStartToken(c.key, c.token, c.userId, c.strict, t)
          [] c.kind = "parseStart" ->
                parseStartToken(c.key, c.token, c.userId, c.strict, t)
          [] c.kind = "issue" -> generateStartTokenLE(c.key, c.ts, c.userId)
          [] c.kind = "chat" -> VerifyCredential(c.key, c.token, env, t)

\* the awaited digest arrives and call i resolves
CallEnd(i) ==
    /\ op = "calls"
    /\ ret[i].pc = "await"
    /\ ret' = [ret EXCEPT ![i] = [pc |-> "done", t |-> ret[i].t,
                                  out |-> CallValue(i)]]
    /\ UNCHANGED <<now, op, arg, telegram, env, issued, ext, web>>

\* time passes while calls are in flight
Elapse ==
    /\ op = "calls"
    /\ now < Epoch + MaxTick
    /\ now' = now + 1
    /\ UNCHANGED <<op, arg, ret, telegram, env, issued, ext, web>>

\* both calls have resolved
Finish ==
    /\ op = "calls"
    /\ \A i \in Slots : ret[i].pc = "done"
    /\ op' = "idle"
    /\ arg' = Nothing
    /\ ret' = Nothing
    /\ UNCHANGED <<now, telegram, env, issued, ext, web>>

ParNext ==
    \/ /\ op = "idle"
       /\ \E a \in ParRequests(now), b \in ParRequests(now) : StartCalls(a, b)
    \/ \E i \in Slots : CallBegin(i)
    \/ \E i \in Slots : CallEnd(i)
    \/ Elapse
    \/ Finish
    \/ Tick

ParSpec == ChatInit /\ [][ParNext]_vars

\* call i has resolved
Resolved(i) == op = "calls" /\ ret[i].pc = "done"

\* the start token of request c is correctly signed and bound, and its
\* timestamp is inside the validity window at time t
ValidAt(c, t) ==
    /\ c.good
    /\ t - START_TOKEN_VALID_DURATION <= c.ts
    /\ c.ts < t + FUTURE_SKEW

-----------------------------------------------------------------------------
(* The web client: the chat list of the user state (client/src/common.ts,  *)
(* client/src/AddChatDialog.tsx).  A chat of the list is a record with its *)
(* id and its name; web.prev, web.kind and web.call record the list before *)
(* the latest update and what that update was.                             *)

WebIds == 1..(MaxId + 2)

WebChats == {[id |-> i, name |-> n] : i \in WebIds, n \in {Names[2], Names[3]}}

\* The chats one updateUserState call is given: one chat (an added or a
\* renamed chat) or the chats of an imported file, which nothing validates.
Imports == {<<>>} \cup {<<c>> : c \in WebChats}
               \cup {<<c, d>> : c \in WebChats, d \in WebChats}

\* Array.prototype.findIndex(c => c.id === id): the first index, from 0, or -1
findIndex(chats, id) ==
    IF \E i \in 1..Len(chats) : chats[i].id = id
    THEN (CHOOSE i \in 1..Len(chats) :
            /\ chats[i].id = id
            /\ \A j \in 1..(i - 1) : chats[j].id # id) - 1
    ELSE -1

UpsertChatAppend(chats, chat) == Append(chats, chat)

\* One round of updateUserState's loop
UpsertChat(chats, chat) ==
    LET index == findIndex(chats, chat.id)
    IN  IF index >= 0
        THEN [chats EXCEPT ![index + 1] = chat]
        ELSE Append(chats, chat)

RECURSIVE UpsertAll(_, _)
UpsertAll(chats, new) ==
    IF new = <<>> THEN chats
    ELSE UpsertAll(UpsertChat(chats, Head(new)), Tail(new))

updateUserState(chats) ==
    /\ web' = [chats |-> UpsertAll(web.chats, chats), prev |-> web.chats,
               kind |-> "update", call |-> chats]
    /\ UNCHANGED <<now, op, arg, ret, telegram, env, issued, ext>>

\* The delete button in the row of a chat of the list
DeleteChat(i) ==
    /\ i \in 1..Len(web.chats)
    /\ web' = [chats |-> SelectSeq(web.chats,
                            LAMBDA c : c.id # web.chats[i].id),
               prev |-> web.chats, kind |-> "delete",
               call |-> <<web.chats[i]>>]
    /\ UNCHANGED <<now, op, arg, ret, telegram, env, issued, ext>>

WebInit ==
    /\ now = Epoch
    /\ env = ChatEnv
    /\ op = "idle"
    /\ arg = Nothing
    /\ ret = Nothing
    /\ telegram = <<>>
    /\ issued = {}
    /\ ext = Nothing
    /\ web = [chats |-> <<>>, prev |-> <<>>, kind |-> "load", call |-> <<>>]

WebNext ==
    \/ \E chats \in Imports : updateUserState(chats)
    \/ \E i \in 1..(MaxId + 2) : DeleteChat(i)

WebSpec == WebInit /\ [][WebNext]_vars

DistinctIds(chats) ==
    \A i, j \in 1..Len(chats) : chats[i].id = chats[j].id => i = j

\* The last chat of call with the id
LastWith(call, id) ==
    call[CHOOSE j \in 1..Len(call) :
            /\ call[j].id = id
            /\ \A k \in (j + 1)..Len(call) : call[k].id # id]

\* The places of call that bring an id that neither old nor an earlier place
\* of call holds
Fresh(old, call) ==
    {j \in 1..Len(call) :
        /\ \A i \in 1..Len(old) : old[i].id # call[j].id
        /\ \A k \in 1..(j - 1) : call[k].id # call[j].id}

NthOf(S, n) == CHOOSE j \in S : Cardinality({k \in S : k < j}) = n - 1

Upserted(old, call, new) ==
    /\ Len(new) = Len(old) + Cardinality(Fresh(old, call))
    /\ \A i \in 1..Len(old) :
          new[i] = IF \E j \in 1..Len(call) : call[j].id = old[i].id
                   THEN LastWith(call, old[i].id)
                   ELSE old[i]
    /\ \A n \in 1..Cardinality(Fresh(old, call)) :
          new[Len(old) + n] =
              LastWith(call, call[NthOf(Fresh(old, call), n)].id)

\* C30: the web client's chat list keeps pairwise distinct ids through every
\* updateUserState call and every deletion; an updateUserState call puts a
\* chat whose id the list holds in the place of the entry with that id and
\* appends every other chat at the end, in the order given.
C30_UpsertKeepsIdsDistinct ==
    /\ DistinctIds(web.chats)
    /\ web.kind = "update" => Upserted(web.prev, web.call, web.chats)
    /\ web.kind = "delete" =>
          /\ \A i \in 1..Len(web.chats) : web.chats[i].id # web.call[1].id
          /\ Len(web.chats) = Len(web.prev) - 1

C30_Witness ==
    /\ web.kind = "update"
    /\ Len(web.prev) >= 2
    /\ Len(web.call) = 2
    /\ web.call[1].id = web.prev[1].id
    /\ web.call[1] # web.prev[1]
    /\ web.chats[1] = web.call[1]
    /\ \A i \in 1..Len(web.prev) : web.prev[i].id # web.call[2].id
    /\ web.chats[Len(web.chats)] = web.call[2]

-----------------------------------------------------------------------------
(* The browser extension (web_extension/src/pages): the background service *)
(* worker, the options page and the popup, with the browser's storage and  *)
(* context menus between them.  ext is a record:                           *)
(*   sync    chrome.storage.sync: serverUrl ("" when unset) and chats, the *)
(*           chats given by their ids                                      *)
(*   local   chrome.storage.local: recentMessages                          *)
(*   menus   the extension's context-menu items kept by the browser        *)
(*   worker  the globals serverUrl and chats of the background worker      *)
(*   events  storage.onChanged events fired and not yet delivered          *)
(*   runs    the updateContextMenus runs in flight, each at its await      *)
(*   saves   the saveMessageToHistory calls in flight, each at its await   *)
(*   popup   the popup page and its React state recentMessages             *)
(*   sends   the number of messages sent so far                            *)
(*   saved   the messages whose record has been written and not deleted    *)
(*           by the user since                                             *)
(* An awaited browser call takes effect in one step and the code after the *)
(* await runs in a later step; steps of different runs, calls and pages    *)
(* interleave.                                                             *)

ExtIds == {1, 2}

ServerUrls == {"https://a", "https://b"}

ChatLists ==
    ({<<>>} \cup {<<c>> : c \in ExtIds}
           \cup {<<c, d>> : c \in ExtIds, d \in ExtIds})
        \ {<<c, c>> : c \in ExtIds}

HISTORY_LIMIT == 50

MaxSends == 2

MaxEvents == 2

ContentKinds == {"selection", "link", "image"}

NoMenus == [parent |-> FALSE, items |-> {}]

NoSettings == [serverUrl |-> "", chats |-> <<>>]

IdleRun == [pc |-> "idle", loaded |-> NoSettings]

IdleSave == [pc |-> "idle", msg |-> Nothing, updated |-> <<>>]

ChatSet(chats) == {chats[i] : i \in 1..Len(chats)}

\* Array.prototype.slice(-n)
LastN(list, n) ==
    IF Len(list) <= n THEN list
    ELSE SubSeq(list, Len(list) - n + 1, Len(list))

FreeRun(e) == \E r \in Slots : e.runs[r].pc = "idle"

\* updateContextMenus up to its first await: removeAll is called
StartRun(e) ==
    LET r == CHOOSE s \in Slots :
                /\ e.runs[s].pc = "idle"
                /\ \A q \in Slots : e.runs[q].pc = "idle" => s <= q
    IN  [e EXCEPT !.runs[r] = [pc |-> "removeAll", loaded |-> NoSettings]]

ExtFrame == UNCHANGED <<now, op, arg, ret, telegram, env, issued, web>>

\* runtime.onInstalled: the extension was installed or updated
Installed ==
    /\ FreeRun(ext)
    /\ ext' = StartRun(ext)
    /\ ExtFrame

\* storage.onChanged for a change of chats or serverUrl in sync
OnChanged ==
    /\ ext.events > 0
    /\ FreeRun(ext)
    /\ ext' = StartRun([ext EXCEPT !.events = @ - 1])
    /\ ExtFrame

\* The browser removes the items; the run goes on to storage.sync.get
RemoveAllDone(r) ==
    /\ ext.runs[r].pc = "removeAll"
    /\ ext' = [ext EXCEPT !.menus = NoMenus, !.runs[r].pc = "get"]
    /\ ExtFrame

\* The browser reads serverUrl and chats for the run
GetDone(r) ==
    /\ ext.runs[r].pc = "get"
    /\ ext' = [ext EXCEPT !.runs[r] = [pc |-> "create", loaded |-> ext.sync]]
    /\ ExtFrame

\* What contextMenus.create calls for the parent and for every chat leave:
\* a call with the id of an item that exists fails and changes nothing
CreateMenus(menus, chats) ==
    [parent |-> TRUE, items |-> menus.items \cup ChatSet(chats)]

\* The run after its second await: the globals and the create calls
Create(r) ==
    /\ ext.runs[r].pc = "create"
    /\ LET loaded == ext.runs[r].loaded
       IN  ext' = [ext EXCEPT
                !.worker = loaded,
                !.menus = IF loaded.serverUrl = "" \/ loaded.chats = <<>>
                          THEN @
                          ELSE CreateMenus(@, loaded.chats),
                !.runs[r] = IdleRun]
    /\ ExtFrame


\* Options page, handleAuthTokenSubmit: the chat is put at the end of the list
handleAuthTokenSubmit(c) ==
    /\ ext.sync.serverUrl # ""
    /\ ext.events < MaxEvents
    /\ ext' = [ext EXCEPT
            !.sync.chats = Append(SelectSeq(@, LAMBDA x : x # c), c),
            !.events = @ + 1]
    /\ ExtFrame

\* Options page, handleDeleteChat: the chat and its messages are deleted
handleDeleteChat(c) ==
    /\ c \in ChatSet(ext.sync.chats)
    /\ ext.events < MaxEvents
    /\ ext' = [ext EXCEPT
            !.sync.chats = SelectSeq(@, LAMBDA x : x # c),
            !.local = SelectSeq(@, LAMBDA m : m.chatId # c),
            !.saved = {m \in @ : m.chatId # c},
            !.events = @ + 1]
    /\ ExtFrame

\* Options page, handleSaveServerUrl: the chats and the history are removed
\* and the URL is set; removing chats that exist and setting the URL are
\* two changes of sync
handleSaveServerUrl(newUrl) ==
    /\ newUrl # ext.sync.serverUrl
    /\ LET fired == IF ext.sync.chats = <<>> THEN 1 ELSE 2
       IN  /\ ext.events + fired <= MaxEvents
           /\ ext' = [ext EXCEPT
                   !.sync = [serverUrl |-> newUrl, chats |-> <<>>],
                   !.local = <<>>,
                   !.saved = {},
                   !.events = @ + fired]
    /\ ExtFrame

WorkerIdle ==
    /\ ext.events = 0
    /\ \A r \in Slots : ext.runs[r].pc = "idle"
    /\ \A s \in Slots : ext.saves[s].pc = "idle"

\* The browser terminates the idle service worker; the module is evaluated
\* again when the next event starts it, which sets the globals to null and []
Terminate ==
    /\ WorkerIdle
    /\ ext.worker # NoSettings
    /\ ext' = [ext EXCEPT !.worker = NoSettings]
    /\ ExtFrame

FreeSave(e) == \E s \in Slots : e.saves[s].pc = "idle"

\* saveMessageToHistory up to its first await: storage.local.get is called
StartSave(e, chatId) ==
    LET s == CHOOSE q \in Slots :
                /\ e.saves[q].pc = "idle"
                /\ \A p \in Slots : e.saves[p].pc = "idle" => q <= p
    IN  [e EXCEPT
            !.saves[s] = [pc |-> "get",
                          msg |-> [n |-> e.sends + 1, chatId |-> chatId],
                          updated |-> <<>>],
            !.sends = @ + 1]

\* handleContextMenuClick for a click on the item of a chat: fetched says
\* whether the image could be fetched, ok whether the server answered 2xx.
\* arg is the click with the settings stored at that time, ret the requests
\* the handler posted.
handleContextMenuClick(item, kind, fetched, ok) ==
    /\ ext.menus.parent
    /\ item \in ext.menus.items
    /\ ext.sends < MaxSends
    /\ FreeSave(ext)
    /\ kind # "image" => fetched
    /\ LET found == /\ ext.worker.serverUrl # ""
                    /\ ext.worker.chats # <<>>
                    /\ item \in ChatSet(ext.worker.chats)
           posted == found /\ (kind = "image" => fetched)
       IN  /\ op' = "click"
           /\ arg' = [item |-> item, kind |-> kind, fetched |-> fetched,
                      stored |-> ext.sync]
           /\ ret' = IF posted
                     THEN {[url |-> ext.worker.serverUrl, chat |-> item,
                            kind |-> kind]}
                     ELSE {}
           /\ ext' = IF posted /\ ok THEN StartSave(ext, item) ELSE ext
    /\ UNCHANGED <<now, telegram, env, issued, web>>

\* The browser reads recentMessages for the call
SaveGet(s) ==
    /\ ext.saves[s].pc = "get"
    /\ ext' = [ext EXCEPT
            !.saves[s].pc = "set",
            !.saves[s].updated =
                LastN(Append(ext.local, ext.saves[s].msg), HISTORY_LIMIT)]
    /\ ExtFrame

\* The browser writes the list the call made
SaveSet(s) ==
    /\ ext.saves[s].pc = "set"
    /\ ext' = [ext EXCEPT
            !.local = ext.saves[s].updated,
            !.saved = @ \cup {ext.saves[s].msg},
            !.saves[s] = IdleSave]
    /\ ExtFrame

ClosedPopup ==
    [open |-> FALSE, serverUrl |-> "", chats |-> <<>>, recentMessages |-> <<>>]

\* The popup is opened: its state is loaded from storage
OpenPopup ==
    /\ ~ext.popup.open
    /\ ext' = [ext EXCEPT !.popup =
                  [open |-> TRUE, serverUrl |-> ext.sync.serverUrl,
                   chats |-> ext.sync.chats, recentMessages |-> ext.local]]
    /\ ExtFrame

ClosePopup ==
    /\ ext.popup.open
    /\ ext' = [ext EXCEPT !.popup = ClosedPopup]
    /\ ExtFrame

\* Popup, handleSend to the selected chat
handleSend(chatId, ok) ==
    /\ ext.popup.open
    /\ ext.popup.serverUrl # ""
    /\ chatId \in ChatSet(ext.popup.chats)
    /\ ext.sends < MaxSends
    /\ LET msg == [n |-> ext.sends + 1, chatId |-> chatId]
           updated == LastN(Append(ext.popup.recentMessages, msg),
                            HISTORY_LIMIT)
       IN  ext' = IF ok
                  THEN [ext EXCEPT !.popup.recentMessages = updated,
                                   !.local = updated,
                                   !.saved = @ \cup {msg},
                                   !.sends = @ + 1]
                  ELSE ext
    /\ ExtFrame

ExtInit ==
    /\ now = Epoch
    /\ env = ChatEnv
    /\ op = "idle"
    /\ arg = Nothing
    /\ ret = Nothing
    /\ telegram = <<>>
    /\ issued = {}
    /\ web = Nothing
    /\ ext = [sync |-> NoSettings, local |-> <<>>, menus |-> NoMenus,
              worker |-> NoSettings, events |-> 0,
              runs |-> [r \in Slots |-> IdleRun],
              saves |-> [s \in Slots |-> IdleSave],
              popup |-> ClosedPopup,
              sends |-> 0, saved |-> {}]

\* The settings, the menus and the clicks; the server answers no send with
\* 2xx here, so that the history stays as it is (HistorySpec has the sends
\* that succeed)
ExtNext ==
    \/ op = "idle" /\ Installed
    \/ op = "idle" /\ OnChanged
    \/ op = "idle" /\ \E r \in Slots : RemoveAllDone(r)
    \/ op = "idle" /\ \E r \in Slots : GetDone(r)
    \/ op = "idle" /\ \E r \in Slots : Create(r)
    \/ op = "idle" /\ \E c \in ExtIds : handleAuthTokenSubmit(c)
    \/ op = "idle" /\ \E c \in ExtIds : handleDeleteChat(c)
    \/ op = "idle" /\ \E newUrl \in ServerUrls : handleSaveServerUrl(newUrl)
    \/ op = "idle" /\ Terminate
    \/ /\ op = "idle"
       /\ \E item \in ExtIds, kind \in ContentKinds, fetched \in BOOLEAN :
            handleContextMenuClick(item, kind, fetched, FALSE)
    \/ Reply

ExtSpec == ExtInit /\ [][ExtNext]_vars

\* The extension set up: a server URL and two chats are saved, the menus
\* are built and the worker has its globals
Configured == [serverUrl |-> "https://a", chats |-> <<1, 2>>]

HistoryInit ==
    /\ now = Epoch
    /\ env = ChatEnv
    /\ op = "idle"
    /\ arg = Nothing
    /\ ret = Nothing
    /\ telegram = <<>>
    /\ issued = {}
    /\ web = Nothing
    /\ ext = [sync |-> Configured, local |-> <<>>,
              menus |-> CreateMenus(NoMenus, Configured.chats),
              worker |-> Configured, events |-> 0,
              runs |-> [r \in Slots |-> IdleRun],
              saves |-> [s \in Slots |-> IdleSave],
              popup |-> ClosedPopup,
              sends |-> 0, saved |-> {}]

HistoryNext ==
    \/ /\ op = "idle"
       /\ \E item \in ExtIds, kind \in ContentKinds, fetched, ok \in BOOLEAN :
            handleContextMenuClick(item, kind, fetched, ok)
    \/ op = "idle" /\ \E s \in Slots : SaveGet(s)
    \/ op = "idle" /\ \E s \in Slots : SaveSet(s)
    \/ op = "idle" /\ OpenPopup
    \/ op = "idle" /\ ClosePopup
    \/ /\ op = "idle"
       /\ \E chatId \in ExtIds, ok \in BOOLEAN : handleSend(chatId, ok)
    \/ Reply

HistorySpec == HistoryInit /\ [][HistoryNext]_vars


-----------------------------------------------------------------------------
(* Claims about the browser extension *)

\* C22: with a server URL and at least one chat saved in chrome.storage.sync,
\* a click on the context-menu item of a saved chat, on selected text, a link
\* or an image that could be fetched, posts that content with that chat's
\* token to /api/send of the saved server, whether or not the service worker
\* was terminated and restarted since the menus were built.
C22_ClickPosts ==
    (/\ op = "click"
     /\ arg.stored.serverUrl # ""
     /\ arg.item \in ChatSet(arg.stored.chats)
     /\ arg.kind = "image" => arg.fetched)
    => ret = {[url |-> arg.stored.serverUrl, chat |-> arg.item,
               kind |-> arg.kind]}

AllRunsFinished ==
    /\ ext.events = 0
    /\ \A r \in Slots : ext.runs[r].pc = "idle"

ExpectedMenus(settings) ==
    IF settings.serverUrl = "" \/ settings.chats = <<>>
    THEN NoMenus
    ELSE [parent |-> TRUE, items |-> ChatSet(settings.chats)]

\* C29: once every updateContextMenus run that an install or a storage
\* change triggered has finished, the context-menu items are the parent item
\* and one item for every chat of the stored list, or no item at all when no
\* server URL or no chat is stored.
C29_MenusMatchStorage ==
    AllRunsFinished => ext.menus = ExpectedMenus(ext.sync)

Records(list) == {list[i] : i \in 1..Len(list)}

Newer(m) == Cardinality({k \in ext.saved : k.n > m.n})

\* C28: every message whose send succeeded and whose record was written is
\* in the stored recentMessages until HISTORY_LIMIT newer records have been
\* written, and the stored list never holds more than HISTORY_LIMIT records.
C28_RecordsKept ==
    /\ Len(ext.local) <= HISTORY_LIMIT
    /\ \A m \in ext.saved :
          m \in Records(ext.local) \/ Newer(m) >= HISTORY_LIMIT

====
